---- MODULE Spec2Model ----
(***************************************************************************)
(* Model of the normalization pipeline of                                  *)
(* skills/datasheet-intelligence/scripts/ingest_docs.py.                   *)
(*                                                                         *)
(* Text is a sequence of one-character strings.  Offsets are 0-based and   *)
(* slices are half-open, as in the Python source.  Each function of the    *)
(* pipeline is a frame (a record of its locals plus a program counter)     *)
(* and one action per loop iteration.                                      *)
(***************************************************************************)
EXTENDS Integers, Sequences, FiniteSets, TLC

VARIABLES chunk, annot, xref, sect, table, image, proc, build, main

vars == <<chunk, annot, xref, sect, table, image, proc, build, main>>

\* The frame of a function that is not running in the specification at hand.
Idle == [pc |-> "idle"]

-----------------------------------------------------------------------------
(* Bounds of the model *)

\* longest text handed to chunk_text
MaxLen == 7
\* largest max_chars handed to chunk_text
MaxChars == 6
\* the same two bounds where termination is checked
LiveMaxLen == 5
LiveMaxChars == 3
\* most lines of a document handed to annotate_headings
MaxLines == 3
\* most cells of a table, and its largest declared row and column counts
MaxCells == 3
MaxRows == 2
MaxCols == 2
\* most pieces of a raw markdown text, and most items of a document
MaxPieces == 3
MaxItems == 2
\* most errors of a conversion result
MaxErrors == 2

\* build_section_chunks: the sections of a document, the largest max_chars,
\* and the chunks enumerated from one section before the model stops
MaxSections == 2
MaxSectionChars == 3
MaxChunkIndex == 5
\* most source files of a batch
MaxSources == 2

-----------------------------------------------------------------------------
(* Python built-ins on text *)

Min(a, b) == IF a < b THEN a ELSE b

Max(a, b) == IF a > b THEN a ELSE b

\* the larger of three, max([a, b, c])
Max3(a, b, c) == Max(a, Max(b, c))

\* s[i]
At(s, i) == s[i + 1]

\* s[a:b] for 0 <= a, b <= len(s)
Slice(s, a, b) == SubSeq(s, a + 1, b)

\* str.isspace() of one character
IsSpace(c) == c \in {" ", "\n", "\t"}

\* str.lstrip()
RECURSIVE LStrip(_)
LStrip(s) ==
    IF s # <<>> /\ IsSpace(Head(s)) THEN LStrip(Tail(s)) ELSE s

\* str.rstrip()
RECURSIVE RStrip(_)
RStrip(s) ==
    IF s # <<>> /\ IsSpace(s[Len(s)]) THEN RStrip(SubSeq(s, 1, Len(s) - 1)) ELSE s

\* str.strip()
Strip(s) == RStrip(LStrip(s))

\* s.rfind(sub, lo, hi): the highest i with lo <= i, i + len(sub) <= hi and
\* s[i:i+len(sub)] == sub, or -1
Rfind(s, sub, lo, hi) ==
    LET hits == {i \in lo .. (hi - Len(sub)) : Slice(s, i, i + Len(sub)) = sub}
    IN  IF hits = {} THEN -1 ELSE CHOOSE i \in hits : \A j \in hits : j <= i

\* all texts over alphabet of length at most n
TextsUpTo(alphabet, n) == UNION {[1 .. k -> alphabet] : k \in 0 .. n}

-----------------------------------------------------------------------------
(* Characters, regular expressions and dictionaries *)

Uppers == <<"A", "B", "C", "D", "E", "F", "G", "H", "I", "J", "K", "L", "M", "N", "O", "P", "Q", "R", "S", "T", "U", "V", "W", "X", "Y", "Z">>

Lowers == <<"a", "b", "c", "d", "e", "f", "g", "h", "i", "j", "k", "l", "m", "n", "o", "p", "q", "r", "s", "t", "u", "v", "w", "x", "y", "z">>

Digits == <<"0", "1", "2", "3", "4", "5", "6", "7", "8", "9">>

\* the backtick character, which a TLA+ string cannot hold
Backtick == "BACKTICK"

InSeq(c, s) == \E i \in 1 .. Len(s) : s[i] = c

IsDigit(c) == InSeq(c, Digits)

\* [a-z0-9]
IsLowerAlnum(c) == InSeq(c, Lowers) \/ IsDigit(c)

\* \w, for the characters of the model
IsWord(c) == InSeq(c, Lowers) \/ InSeq(c, Uppers) \/ IsDigit(c) \/ c = "_"

\* str.lower() of one character
LowerChar(c) ==
    IF InSeq(c, Uppers) THEN Lowers[CHOOSE i \in 1 .. Len(Uppers) : Uppers[i] = c] ELSE c

\* str.lower()
Lower(s) == [i \in 1 .. Len(s) |-> LowerChar(s[i])]

\* str(n) for n >= 0
RECURSIVE IntToStr(_)
IntToStr(n) ==
    IF n < 10 THEN <<Digits[n + 1]>> ELSE IntToStr(n \div 10) \o <<Digits[(n % 10) + 1]>>

\* s.startswith(prefix, p)
StartsWithAt(s, prefix, p) ==
    p + Len(prefix) <= Len(s) /\ Slice(s, p, p + Len(prefix)) = prefix

\* the end of the run of whitespace that begins at offset p
RECURSIVE SkipSpace(_, _)
SkipSpace(s, p) ==
    IF p < Len(s) /\ IsSpace(At(s, p)) THEN SkipSpace(s, p + 1) ELSE p

\* str.splitlines(), for texts whose only line boundary is "\n"
RECURSIVE SplitLines(_)
SplitLines(s) ==
    IF s = <<>> THEN <<>>
    ELSE LET nl == {i \in 1 .. Len(s) : s[i] = "\n"}
         IN  IF nl = {} THEN <<s>>
             ELSE LET k == CHOOSE i \in nl : \A j \in nl : i <= j
                  IN  <<SubSeq(s, 1, k - 1)>> \o SplitLines(SubSeq(s, k + 1, Len(s)))

\* "\n".join(lines)
RECURSIVE JoinLines(_)
JoinLines(lines) ==
    IF lines = <<>> THEN <<>>
    ELSE IF Len(lines) = 1 THEN lines[1]
    ELSE lines[1] \o <<"\n">> \o JoinLines(Tail(lines))

\* None
None == <<"None">>

\* the empty dict
EmptyDict == <<>>

\* d[k] = v
DictSet(d, k, v) == [x \in (DOMAIN d) \cup {k} |-> IF x = k THEN v ELSE d[x]]

\* d.setdefault(k, v)
SetDefault(d, k, v) == IF k \in DOMAIN d THEN d ELSE DictSet(d, k, v)

\* d.get(k)
DictGet(d, k) == IF k \in DOMAIN d THEN d[k] ELSE None

\* HEADING_RE = ^(#{1,6})\s+(.*\S)\s*$ : the number of leading hashes
RECURSIVE LeadingHashes(_)
LeadingHashes(line) ==
    IF line # <<>> /\ Head(line) = "#" THEN 1 + LeadingHashes(Tail(line)) ELSE 0

\* HEADING_RE.match(line) is not None
IsHeading(line) ==
    LET k == LeadingHashes(line)
    IN  /\ k \in 1 .. 6
        /\ k < Len(line)
        /\ IsSpace(At(line, k))
        /\ Strip(Slice(line, k, Len(line))) # <<>>

\* HeadingLevel with a fault: every heading is of level 1
HeadingLevelOne(line) == 1

\* heading_match.group(1) and group(2).strip()
HeadingLevel(line) == LeadingHashes(line)

HeadingText(line) == Strip(Slice(line, LeadingHashes(line), Len(line)))

AnchorPrefix == <<"<", "a", " ", "i", "d", "=", "\"">>

AnchorSuffix == <<"\"", ">", "<", "/", "a", ">">>

\* f'<a id="{anchor}"></a>'
AnchorMarker(anchor) == AnchorPrefix \o anchor \o AnchorSuffix

\* ANCHOR_RE = ^<a id="([a-z0-9][a-z0-9-]*)"></a>$ : group(1), or None
AnchorMatch(line) ==
    LET n  == Len(line)
        id == Slice(line, Len(AnchorPrefix), n - Len(AnchorSuffix))
    IN  IF /\ n > Len(AnchorPrefix) + Len(AnchorSuffix)
           /\ StartsWithAt(line, AnchorPrefix, 0)
           /\ StartsWithAt(line, AnchorSuffix, n - Len(AnchorSuffix))
           /\ IsLowerAlnum(id[1])
           /\ \A i \in 1 .. Len(id) : IsLowerAlnum(id[i]) \/ id[i] = "-"
        THEN id
        ELSE None

\* \d+(?:\.\d+)* matches the whole of t
IsDottedNumber(t) ==
    /\ t # <<>>
    /\ IsDigit(t[1]) /\ IsDigit(t[Len(t)])
    /\ \A i \in 1 .. Len(t) : IsDigit(t[i]) \/ t[i] = "."
    /\ \A i \in 1 .. Len(t) - 1 : ~(t[i] = "." /\ t[i + 1] = ".")

\* \d+(?:\.\d+)*\b at offset p: the end of the (greedy, backtracking) match,
\* or -1
NumEnd(s, p) ==
    LET ends == {e \in (p + 1) .. Len(s) :
                    /\ IsDottedNumber(Slice(s, p, e))
                    /\ (e = Len(s) \/ ~IsWord(At(s, e)))}
    IN  IF ends = {} THEN -1 ELSE CHOOSE e \in ends : \A f \in ends : f <= e

\* HEADING_NUM_RE = ^(?P<num>\d+(?:\.\d+)*)\b : group("num"), or None
HeadingNum(text) ==
    IF NumEnd(text, 0) = -1 THEN None ELSE Slice(text, 0, NumEnd(text, 0))

RefLabels == {<<"t", "a", "b", "l", "e">>, <<"f", "i", "g", "u", "r", "e">>, <<"s", "e", "c", "t", "i", "o", "n">>, <<"c", "h", "a", "p", "t", "e", "r">>}

NoMatch == [start |-> -1, end |-> -1, label |-> <<>>, num |-> <<>>]

\* (?P<label>Table|Figure|Section|Chapter)\s+(?P<num>\d+(?:\.\d+)*)\b at
\* offset q, ignoring case; the match is reported from offset p
LabelNumAt(s, p, q) ==
    LET labels == {l \in RefLabels : StartsWithAt(Lower(s), l, q)}
    IN  IF labels = {} THEN NoMatch
        ELSE LET l == CHOOSE x \in labels : TRUE
                 a == q + Len(l)
                 r == SkipSpace(s, a)
             IN  IF r = a \/ NumEnd(s, r) = -1 THEN NoMatch
                 ELSE [start |-> p, end |-> NumEnd(s, r),
                       label |-> Slice(s, q, a), num |-> Slice(s, r, NumEnd(s, r))]

\* TABLE_REF_RE = \b(?:See\s+)?(label)\s+(num)\b at offset p
RefMatchAt(s, p) ==
    IF ~(p < Len(s) /\ IsWord(At(s, p)) /\ (p = 0 \/ ~IsWord(At(s, p - 1))))
    THEN NoMatch
    ELSE LET see == StartsWithAt(Lower(s), <<"s", "e", "e">>, p)
                        /\ SkipSpace(s, p + 3) > p + 3
         IN  IF see /\ LabelNumAt(s, p, SkipSpace(s, p + 3)) # NoMatch
             THEN LabelNumAt(s, p, SkipSpace(s, p + 3))
             ELSE LabelNumAt(s, p, p)

\* TABLE_REF_RE.finditer(s) from offset p on: the matches, left to right
RECURSIVE RefMatchesFrom(_, _)
RefMatchesFrom(s, p) ==
    IF p >= Len(s) THEN <<>>
    ELSE IF RefMatchAt(s, p) # NoMatch
         THEN <<RefMatchAt(s, p)>> \o RefMatchesFrom(s, RefMatchAt(s, p).end)
         ELSE RefMatchesFrom(s, p + 1)

RefMatches(s) == RefMatchesFrom(s, 0)

\* str.replace(".", "-")
DotsToHyphens(s) == [i \in 1 .. Len(s) |-> IF s[i] = "." THEN "-" ELSE s[i]]

\* f"{label.lower()}-{number.replace('.', '-')}"
make_ref_key(label, number) == Lower(label) \o <<"-">> \o DotsToHyphens(number)

\* re.sub(r"[^a-z0-9]+", "-", s): every run of other characters becomes one "-"
RECURSIVE CollapseRuns(_)
CollapseRuns(s) ==
    IF s = <<>> THEN <<>>
    ELSE IF IsLowerAlnum(Head(s)) THEN <<Head(s)>> \o CollapseRuns(Tail(s))
    ELSE IF Len(s) > 1 /\ ~IsLowerAlnum(s[2]) THEN CollapseRuns(Tail(s))
    ELSE <<"-">> \o CollapseRuns(Tail(s))

\* str.strip("-")
RECURSIVE StripHyphens(_)
StripHyphens(s) ==
    IF s # <<>> /\ Head(s) = "-" THEN StripHyphens(Tail(s))
    ELSE IF s # <<>> /\ s[Len(s)] = "-" THEN StripHyphens(SubSeq(s, 1, Len(s) - 1))
    ELSE s

DefaultSlug == <<"s", "e", "c", "t", "i", "o", "n">>

slugify(text) ==
    LET slug == StripHyphens(CollapseRuns(Lower(text)))
    IN  IF slug = <<>> THEN DefaultSlug ELSE slug

\* the while loop of dedupe_slug: the first f"{slug}-{index}" not in used
RECURSIVE DedupeFrom(_, _, _)
DedupeFrom(slug, used, index) ==
    IF (slug \o <<"-">> \o IntToStr(index)) \notin used
    THEN slug \o <<"-">> \o IntToStr(index)
    ELSE DedupeFrom(slug, used, index + 1)

\* dedupe_slug with a fault: the slug is returned without the look-up in used
dedupe_slug_unchecked(slug, used) == slug

\* the value dedupe_slug returns (it also adds that value to used)
dedupe_slug(slug, used) ==
    IF slug \notin used THEN slug ELSE DedupeFrom(slug, used, 2)

-----------------------------------------------------------------------------
(* chunk_text *)

ChunkAlphabet == {"a", " ", "\n"}

\* no span yet: the value of the history fields before the first iteration
NoSpan == [start |-> -1, end |-> -1, emitted |-> FALSE]

\* the candidate end of the window, min(size, start + max_chars)
CandidateEnd(size, start, max_chars) == Min(size, start + max_chars)

\* cut = max(cut_candidates): the three rfind results and their maximum
CutCandidates(normalized, start, max_chars, end) ==
    <<Rfind(normalized, <<"\n", "\n">>, start + (max_chars \div 2), end),
      Rfind(normalized, <<"\n">>, start + (max_chars \div 2), end),
      Rfind(normalized, <<" ">>, start + (max_chars \div 2), end)>>

ChooseCut(cands) == Max3(cands[1], cands[2], cands[3])

\* the cut is taken only past one third of the window
CutAccepted(cut, start, max_chars) == cut > start + (max_chars \div 3)

\* the end of the slice of one iteration
IterEnd(normalized, size, start, max_chars) ==
    LET end == CandidateEnd(size, start, max_chars)
        cut == ChooseCut(CutCandidates(normalized, start, max_chars, end))
    IN  IF end < size /\ CutAccepted(cut, start, max_chars) THEN cut ELSE end

\* NextStart with a fault: the overlap is forgotten
NextStartNoOverlap(end, overlap) == end

\* start = max(0, end - overlap)
NextStart(end, overlap) == Max(0, end - overlap)

\* the caller-validated precondition on the chunk parameters
ChunkParams(maxChars) ==
    {p \in (1 .. maxChars) \X (0 .. maxChars) : p[2] < p[1]}

\* Yields with a fault: the emptiness test is dropped
YieldsAlways(piece) == TRUE

\* if piece: yield piece
Yields(piece) == piece # <<>>

\* Locals of the generator (text .. piece), what the last iteration yielded,
\* and the history the properties read: iter and prevIter are the spans
\* [start, end) of the last two iterations, lastChunk and prevChunk the
\* spans of the last two iterations that yielded a chunk, tick the parity
\* of the number of iterations, more whether the last iteration found text
\* left after its candidate end (end < size at line 453).
InitChunkFrame(maxLen, maxChars) ==
    {[pc |-> "call", text |-> t, max_chars |-> p[1], overlap |-> p[2],
      normalized |-> <<>>, size |-> 0, start |-> 0, end |-> 0,
      more |-> FALSE, cands |-> <<-1, -1, -1>>, cut |-> -1, piece |-> <<>>, yielded |-> <<>>,
      tick |-> 0, iter |-> NoSpan, prevIter |-> NoSpan,
      lastChunk |-> NoSpan, prevChunk |-> NoSpan] :
        t \in TextsUpTo(ChunkAlphabet, maxLen), p \in ChunkParams(maxChars)}

\* normalized = text.strip(); an empty text returns at once
ChunkStart ==
    /\ chunk.pc = "call"
    /\ LET normalized == Strip(chunk.text)
       IN  chunk' = [chunk EXCEPT !.normalized = normalized,
                                  !.size = Len(normalized),
                                  !.start = 0,
                                  !.pc = IF normalized = <<>> THEN "done" ELSE "loop"]
    /\ UNCHANGED <<annot, xref, sect, table, image, proc, build, main>>

\* one iteration of the while loop
ChunkIter ==
    /\ chunk.pc = "loop"
    /\ LET start == chunk.start
           size  == chunk.size
           cand  == CandidateEnd(size, start, chunk.max_chars)
           cands == CutCandidates(chunk.normalized, start, chunk.max_chars, cand)
           end   == IterEnd(chunk.normalized, size, start, chunk.max_chars)
           piece == Strip(Slice(chunk.normalized, start, end))
           span  == [start |-> start, end |-> end, emitted |-> Yields(piece)]
       IN  IF start < size
           THEN chunk' = [chunk EXCEPT
                    !.end = end,
                    !.more = cand < size,
                    !.cands = IF cand < size THEN cands ELSE chunk.cands,
                    !.cut = IF cand < size THEN ChooseCut(cands) ELSE chunk.cut,
                    !.piece = piece,
                    !.yielded = IF Yields(piece) THEN <<piece>> ELSE <<>>,
                    !.tick = 1 - chunk.tick,
                    !.iter = span,
                    !.prevIter = chunk.iter,
                    !.lastChunk = IF Yields(piece) THEN span ELSE chunk.lastChunk,
                    !.prevChunk = IF Yields(piece) THEN chunk.lastChunk ELSE chunk.prevChunk,
                    !.start = IF end >= size THEN start ELSE NextStart(end, chunk.overlap),
                    !.pc = IF end >= size THEN "done" ELSE "loop"]
           ELSE chunk' = [chunk EXCEPT !.pc = "done"]
    /\ UNCHANGED <<annot, xref, sect, table, image, proc, build, main>>

InitChunk ==
    /\ chunk \in InitChunkFrame(MaxLen, MaxChars)
    /\ annot = Idle /\ xref = Idle /\ sect = Idle /\ table = Idle /\ image = Idle /\ proc = Idle
    /\ build = Idle /\ main = Idle

LiveInitChunk ==
    /\ chunk \in InitChunkFrame(LiveMaxLen, LiveMaxChars)
    /\ annot = Idle /\ xref = Idle /\ sect = Idle /\ table = Idle /\ image = Idle /\ proc = Idle
    /\ build = Idle /\ main = Idle

NextChunk == ChunkStart \/ ChunkIter

SpecChunk == InitChunk /\ [][NextChunk]_vars

\* the generator is driven to exhaustion by its consumer (enumerate in
\* build_section_chunks), so an enabled step is eventually taken
LiveSpecChunk == LiveInitChunk /\ [][NextChunk]_vars /\ WF_vars(NextChunk)

-----------------------------------------------------------------------------
(* annotate_headings *)

\* the lines the documents of the model are made of
AnnotCorpus ==
    {<<"#", " ", "F", "o", "o">>,
     <<"#", " ", "F", "o", "o", " ", "2">>,
     <<"#", "#", " ", "4", ".", "2", " ", "B", "a", "r">>,
     <<"#", " ", "S", "e", "c", "t", "i", "o", "n", " ", "4", ".", "2">>,
     <<"#", " ", "T", "a", "b", "l", "e", " ", "1">>,
     <<"#", "#", " ", "O", "n", " ", "T", "a", "b", "l", "e", " ", "1">>,
     <<"#", " ", "!">>,
     <<"<", "a", " ", "i", "d", "=", "\"", "x", "\"", ">", "<", "/", "a", ">">>,
     <<"S", "e", "e", " ", "T", "a", "b", "l", "e", " ", "1">>,
     <<>>}

\* the markdown texts of at most n lines of corpus
DocsUpTo(corpus, n) ==
    {JoinLines(d) : d \in UNION {[1 .. k -> corpus] : k \in 0 .. n}}

SectionLabel == <<"s", "e", "c", "t", "i", "o", "n">>

\* ref_targets[anchor] = anchor
RegisterOwn(ref_targets, anchor) == DictSet(ref_targets, anchor, anchor)

\* the setdefault of the section-<n> key when the heading text starts with a
\* dotted number
RegisterNumber(ref_targets, heading_text, anchor) ==
    IF HeadingNum(heading_text) # None
    THEN SetDefault(ref_targets, make_ref_key(SectionLabel, HeadingNum(heading_text)), anchor)
    ELSE ref_targets

\* the setdefault of every table-/figure-/section-/chapter-<n> key the
\* heading text mentions, in order
RECURSIVE RegisterRefs(_, _, _)
RegisterRefs(ref_targets, matches, anchor) ==
    IF matches = <<>> THEN ref_targets
    ELSE RegisterRefs(
            SetDefault(ref_targets, make_ref_key(Head(matches).label, Head(matches).num), anchor),
            Tail(matches), anchor)

\* the three registrations of one heading
RegisterHeading(ref_targets, heading_text, anchor) ==
    RegisterRefs(RegisterNumber(RegisterOwn(ref_targets, anchor), heading_text, anchor),
                 RefMatches(heading_text), anchor)

\* the id of the anchor marker line that is pending before line i (0-based):
\* the line just before it, when that is an anchor marker line
PendingBefore(lines, i) ==
    IF i > 0 THEN AnchorMatch(Strip(lines[i])) ELSE None

\* HeadingOut with a fault: no marker line is emitted
HeadingOutNoMarker(anchor, line) == <<line>>

\* HeadingOut with a fault: the marker line follows the heading line
HeadingOutMarkerAfter(anchor, line) == <<line, AnchorMarker(anchor)>>

\* lines_out.append(f'<a id="{anchor}"></a>'); lines_out.append(line)
HeadingOut(anchor, line) == <<AnchorMarker(anchor), line>>

\* Locals of annotate_headings, the index i of the next line, the returned
\* markdown, and heads: for every heading so far its line index, text, slug,
\* assigned anchor and the anchor pending before it.
InitAnnotFrame(maxLines) ==
    {[pc |-> "call", markdown |-> md, lines |-> <<>>, i |-> 0,
      used_anchors |-> {}, ref_targets |-> EmptyDict, lines_out |-> <<>>,
      result |-> <<>>, heads |-> <<>>] : md \in DocsUpTo(AnnotCorpus, maxLines)}

\* for line in markdown.splitlines()
AnnotStart ==
    /\ annot.pc = "call"
    /\ annot' = [annot EXCEPT !.lines = SplitLines(annot.markdown), !.pc = "loop"]
    /\ UNCHANGED <<chunk, xref, sect, table, image, proc, build, main>>

\* a line that is no heading is copied
AnnotPlain ==
    /\ annot.pc = "loop"
    /\ annot.i < Len(annot.lines)
    /\ ~IsHeading(annot.lines[annot.i + 1])
    /\ annot' = [annot EXCEPT !.lines_out = Append(annot.lines_out, annot.lines[annot.i + 1]),
                              !.i = annot.i + 1]
    /\ UNCHANGED <<chunk, xref, sect, table, image, proc, build, main>>

\* a heading line gets its anchor, its marker line and its registrations
AnnotHeading ==
    /\ annot.pc = "loop"
    /\ annot.i < Len(annot.lines)
    /\ IsHeading(annot.lines[annot.i + 1])
    /\ LET line         == annot.lines[annot.i + 1]
           heading_text == HeadingText(line)
           anchor       == dedupe_slug(slugify(heading_text), annot.used_anchors)
       IN  annot' = [annot EXCEPT
                !.used_anchors = annot.used_anchors \cup {anchor},
                !.lines_out = annot.lines_out \o HeadingOut(anchor, line),
                !.ref_targets = RegisterHeading(annot.ref_targets, heading_text, anchor),
                !.heads = Append(annot.heads,
                                 [index |-> annot.i, text |-> heading_text,
                                  slug |-> slugify(heading_text), anchor |-> anchor,
                                  pending |-> PendingBefore(annot.lines, annot.i)]),
                !.i = annot.i + 1]
    /\ UNCHANGED <<chunk, xref, sect, table, image, proc, build, main>>

\* return "\n".join(lines_out), ref_targets
AnnotReturn ==
    /\ annot.pc = "loop"
    /\ annot.i = Len(annot.lines)
    /\ annot' = [annot EXCEPT !.result = JoinLines(annot.lines_out), !.pc = "done"]
    /\ UNCHANGED <<chunk, xref, sect, table, image, proc, build, main>>

InitAnnot ==
    /\ annot \in InitAnnotFrame(MaxLines)
    /\ chunk = Idle /\ xref = Idle /\ sect = Idle /\ table = Idle /\ image = Idle /\ proc = Idle
    /\ build = Idle /\ main = Idle

NextAnnot == AnnotStart \/ AnnotPlain \/ AnnotHeading \/ AnnotReturn

SpecAnnot == InitAnnot /\ [][NextAnnot]_vars

-----------------------------------------------------------------------------
(* normalize_cross_references *)

XrefCorpus ==
    {<<Backtick, Backtick, Backtick>>,
     <<" ", Backtick, Backtick, Backtick, "p", "y">>,
     <<"S", "e", "e", " ", "T", "a", "b", "l", "e", " ", "1">>,
     <<"x", " ", "t", "a", "b", "l", "e", " ", "1", ",", " ", "S", "e", "c", "t", "i", "o", "n", " ", "4", ".", "2">>,
     <<"t", "e", "x", "t">>,
     <<>>}

KeyTable1 == <<"t", "a", "b", "l", "e", "-", "1">>

KeySection42 == <<"s", "e", "c", "t", "i", "o", "n", "-", "4", "-", "2">>

AnchorOnTable1 == <<"o", "n", "-", "t", "a", "b", "l", "e", "-", "1">>

Anchor42Bar == <<"4", "-", "2", "-", "b", "a", "r">>

\* registries annotate_headings can return: of a document without headings,
\* of "## On Table 1", and of "## On Table 1", "## 4.2 Bar"
XrefRegistries ==
    {EmptyDict,
     DictSet(DictSet(EmptyDict, AnchorOnTable1, AnchorOnTable1), KeyTable1, AnchorOnTable1),
     DictSet(DictSet(DictSet(DictSet(EmptyDict, AnchorOnTable1, AnchorOnTable1),
                             KeyTable1, AnchorOnTable1),
                     Anchor42Bar, Anchor42Bar),
             KeySection42, Anchor42Bar)}

Fence == <<Backtick, Backtick, Backtick>>

\* line.strip().startswith(the fence)
IsFenceLine(line) == StartsWithAt(Strip(line), Fence, 0)

\* replace_ref with a fault: the link goes to the key, bound or not
replace_ref_by_key(s, match, ref_targets) ==
    <<"[">> \o Slice(s, match.start, match.end) \o <<"]", "(", "#">>
        \o make_ref_key(match.label, match.num) \o <<")">>

\* replace_ref(match): the text that replaces one match
replace_ref(s, match, ref_targets) ==
    LET key    == make_ref_key(match.label, match.num)
        anchor == DictGet(ref_targets, key)
        group0 == Slice(s, match.start, match.end)
    IN  IF anchor = None \/ anchor = <<>> THEN group0
        ELSE <<"[">> \o group0 \o <<"]", "(", "#">> \o anchor \o <<")">>

\* TABLE_REF_RE.sub(replace_ref, s): the text from offset p on, the matches
\* replaced and the text between them copied
RECURSIVE SubRefsFrom(_, _, _, _)
SubRefsFrom(s, matches, p, ref_targets) ==
    IF matches = <<>> THEN Slice(s, p, Len(s))
    ELSE Slice(s, p, Head(matches).start)
            \o replace_ref(s, Head(matches), ref_targets)
            \o SubRefsFrom(s, Tail(matches), Head(matches).end, ref_targets)

SubRefs(line, ref_targets) == SubRefsFrom(line, RefMatches(line), 0, ref_targets)

\* XrefLineOut with a fault: the fence state is not consulted
XrefLineOutNoFence(line, in_code_block, ref_targets) ==
    IF IsFenceLine(line) THEN line ELSE SubRefs(line, ref_targets)

\* what one iteration appends to normalized
XrefLineOut(line, in_code_block, ref_targets) ==
    IF IsFenceLine(line) THEN line
    ELSE IF in_code_block THEN line
    ELSE SubRefs(line, ref_targets)

InitXrefFrame(maxLines) ==
    {[pc |-> "call", markdown |-> md, ref_targets |-> reg, lines |-> <<>>, i |-> 0,
      in_code_block |-> FALSE, normalized |-> <<>>, result |-> <<>>] :
        md \in DocsUpTo(XrefCorpus, maxLines), reg \in XrefRegistries}

\* for line in markdown.splitlines()
XrefStart ==
    /\ xref.pc = "call"
    /\ xref' = [xref EXCEPT !.lines = SplitLines(xref.markdown), !.pc = "loop"]
    /\ UNCHANGED <<chunk, annot, sect, table, image, proc, build, main>>

\* a fence line toggles in_code_block and is copied
XrefFence ==
    /\ xref.pc = "loop"
    /\ xref.i < Len(xref.lines)
    /\ IsFenceLine(xref.lines[xref.i + 1])
    /\ xref' = [xref EXCEPT
            !.in_code_block = ~xref.in_code_block,
            !.normalized = Append(xref.normalized,
                XrefLineOut(xref.lines[xref.i + 1], xref.in_code_block, xref.ref_targets)),
            !.i = xref.i + 1]
    /\ UNCHANGED <<chunk, annot, sect, table, image, proc, build, main>>

\* any other line is copied inside a code block and rewritten outside
XrefLine ==
    /\ xref.pc = "loop"
    /\ xref.i < Len(xref.lines)
    /\ ~IsFenceLine(xref.lines[xref.i + 1])
    /\ xref' = [xref EXCEPT
            !.normalized = Append(xref.normalized,
                XrefLineOut(xref.lines[xref.i + 1], xref.in_code_block, xref.ref_targets)),
            !.i = xref.i + 1]
    /\ UNCHANGED <<chunk, annot, sect, table, image, proc, build, main>>

\* return "\n".join(normalized)
XrefReturn ==
    /\ xref.pc = "loop"
    /\ xref.i = Len(xref.lines)
    /\ xref' = [xref EXCEPT !.result = JoinLines(xref.normalized), !.pc = "done"]
    /\ UNCHANGED <<chunk, annot, sect, table, image, proc, build, main>>

InitXref ==
    /\ xref \in InitXrefFrame(MaxLines)
    /\ chunk = Idle /\ annot = Idle /\ sect = Idle /\ table = Idle /\ image = Idle /\ proc = Idle
    /\ build = Idle /\ main = Idle

NextXref == XrefStart \/ XrefFence \/ XrefLine \/ XrefReturn

SpecXref == InitXref /\ [][NextXref]_vars

-----------------------------------------------------------------------------
(* extract_sections *)

SectCorpus ==
    {<<"#", " ", "F", "o", "o">>,
     <<"#", " ", "F", "o", "o", " ">>,
     <<"#", "#", " ", "4", ".", "2", " ", "B", "a", "r">>,
     <<"<", "a", " ", "i", "d", "=", "\"", "x", "\"", ">", "<", "/", "a", ">">>,
     <<"t", "e", "x", "t">>,
     <<" ", "b", "o", "d", "y">>,
     <<>>,
     <<" ">>}

TitleDocumentStart == <<"D", "o", "c", "u", "m", "e", "n", "t", " ", "S", "t", "a", "r", "t">>

AnchorDocumentStart == <<"d", "o", "c", "u", "m", "e", "n", "t", "-", "s", "t", "a", "r", "t">>

TitleDocument == <<"D", "o", "c", "u", "m", "e", "n", "t">>

AnchorDocument == <<"d", "o", "c", "u", "m", "e", "n", "t">>

\* current_lines and any(piece.strip() for piece in current_lines)
HasContent(current_lines) ==
    \E k \in 1 .. Len(current_lines) : Strip(current_lines[k]) # <<>>

\* the Section built from the current section state
CurrentSection(f) ==
    [title |-> f.current_title, anchor |-> f.current_anchor,
     level |-> f.current_level, text |-> Strip(JoinLines(f.current_lines))]

\* the flush: the current section is appended if it has content
Flushed(f) ==
    IF HasContent(f.current_lines) THEN Append(f.sections, CurrentSection(f))
    ELSE f.sections

\* pending_anchor or slugify(current_title)
SectionAnchor(pending_anchor, title) ==
    IF pending_anchor = None \/ pending_anchor = <<>> THEN slugify(title)
    ELSE pending_anchor

\* StartLines with a fault: the heading line is not kept as content
StartLinesEmpty(line) == <<>>

\* current_lines = [line]
StartLines(line) == <<line>>

\* SectionsResult with a fault: no fallback for a document without sections
SectionsResultNoFallback(f) == Flushed(f)

\* the value returned after the loop
SectionsResult(f) ==
    IF Flushed(f) # <<>> THEN Flushed(f)
    ELSE IF Strip(f.markdown) = <<>> THEN <<>>
    ELSE <<[title |-> TitleDocument, anchor |-> AnchorDocument, level |-> 1,
            text |-> Strip(f.markdown)]>>

InitSectFrame(maxLines) ==
    {[pc |-> "call", markdown |-> md, lines |-> <<>>, i |-> 0,
      sections |-> <<>>, pending_anchor |-> None,
      current_title |-> TitleDocumentStart, current_anchor |-> AnchorDocumentStart,
      current_level |-> 1, current_lines |-> <<>>, result |-> <<>>] :
        md \in DocsUpTo(SectCorpus, maxLines)}

\* for line in markdown.splitlines()
SectStart ==
    /\ sect.pc = "call"
    /\ sect' = [sect EXCEPT !.lines = SplitLines(sect.markdown), !.pc = "loop"]
    /\ UNCHANGED <<chunk, annot, xref, table, image, proc, build, main>>

\* an anchor marker line sets pending_anchor and is not kept
SectAnchor ==
    /\ sect.pc = "loop"
    /\ sect.i < Len(sect.lines)
    /\ AnchorMatch(Strip(sect.lines[sect.i + 1])) # None
    /\ sect' = [sect EXCEPT !.pending_anchor = AnchorMatch(Strip(sect.lines[sect.i + 1])),
                            !.i = sect.i + 1]
    /\ UNCHANGED <<chunk, annot, xref, table, image, proc, build, main>>

\* a heading line flushes the current section and starts the next
SectHeading ==
    /\ sect.pc = "loop"
    /\ sect.i < Len(sect.lines)
    /\ AnchorMatch(Strip(sect.lines[sect.i + 1])) = None
    /\ IsHeading(sect.lines[sect.i + 1])
    /\ LET line == sect.lines[sect.i + 1]
       IN  sect' = [sect EXCEPT
                !.sections = Flushed(sect),
                !.current_title = HeadingText(line),
                !.current_anchor = SectionAnchor(sect.pending_anchor, HeadingText(line)),
                !.current_level = HeadingLevel(line),
                !.current_lines = StartLines(line),
                !.pending_anchor = None,
                !.i = sect.i + 1]
    /\ UNCHANGED <<chunk, annot, xref, table, image, proc, build, main>>

\* any other line joins the current section and clears pending_anchor
SectLine ==
    /\ sect.pc = "loop"
    /\ sect.i < Len(sect.lines)
    /\ AnchorMatch(Strip(sect.lines[sect.i + 1])) = None
    /\ ~IsHeading(sect.lines[sect.i + 1])
    /\ sect' = [sect EXCEPT
            !.current_lines = Append(sect.current_lines, sect.lines[sect.i + 1]),
            !.pending_anchor = None,
            !.i = sect.i + 1]
    /\ UNCHANGED <<chunk, annot, xref, table, image, proc, build, main>>

\* the last flush, the fallback for a document without sections, the return
SectReturn ==
    /\ sect.pc = "loop"
    /\ sect.i = Len(sect.lines)
    /\ sect' = [sect EXCEPT !.sections = Flushed(sect),
                            !.result = SectionsResult(sect),
                            !.pc = "done"]
    /\ UNCHANGED <<chunk, annot, xref, table, image, proc, build, main>>

InitSect ==
    /\ sect \in InitSectFrame(MaxLines)
    /\ chunk = Idle /\ annot = Idle /\ xref = Idle /\ table = Idle /\ image = Idle /\ proc = Idle
    /\ build = Idle /\ main = Idle

NextSect == SectStart \/ SectAnchor \/ SectHeading \/ SectLine \/ SectReturn

SpecSect == InitSect /\ [][NextSect]_vars

-----------------------------------------------------------------------------
(* table_to_matrix *)

\* the table cells the tables of the model are made of: single cells, spans,
\* the same position with equal, different and contained text, offsets that
\* are negative, beyond the grid, reversed or missing, blank text
CellCorpus ==
    {[text |-> <<"A">>, start_row_offset_idx |-> 0, end_row_offset_idx |-> 0, start_col_offset_idx |-> 0, end_col_offset_idx |-> 0],
     [text |-> <<"B">>, start_row_offset_idx |-> 0, end_row_offset_idx |-> 0, start_col_offset_idx |-> 1, end_col_offset_idx |-> 1],
     [text |-> <<"C">>, start_row_offset_idx |-> 1, end_row_offset_idx |-> 1, start_col_offset_idx |-> 0, end_col_offset_idx |-> 1],
     [text |-> <<"A", "B">>, start_row_offset_idx |-> 0, end_row_offset_idx |-> 0, start_col_offset_idx |-> 0, end_col_offset_idx |-> 0],
     [text |-> <<" ", "A", " ", " ", "B", " ">>, start_row_offset_idx |-> 0, end_row_offset_idx |-> 1, start_col_offset_idx |-> 0, end_col_offset_idx |-> 0],
     [text |-> <<"B">>, start_row_offset_idx |-> 0, end_row_offset_idx |-> 5, start_col_offset_idx |-> 1, end_col_offset_idx |-> 5],
     [text |-> <<"A">>, start_row_offset_idx |-> -1, end_row_offset_idx |-> 0, start_col_offset_idx |-> 0, end_col_offset_idx |-> 0],
     [text |-> <<"A">>, start_row_offset_idx |-> 0, start_col_offset_idx |-> 2, end_col_offset_idx |-> 2],
     [text |-> <<"B">>, start_row_offset_idx |-> 1, end_row_offset_idx |-> 0, start_col_offset_idx |-> 0, end_col_offset_idx |-> 1],
     [text |-> <<" ">>, start_row_offset_idx |-> 0, end_row_offset_idx |-> 0, start_col_offset_idx |-> 0, end_col_offset_idx |-> 0],
     [text |-> <<"C">>, start_row_offset_idx |-> 0, end_row_offset_idx |-> 0, end_col_offset_idx |-> 0]}

\* " ".join(text.split()): runs of whitespace become one space, the ends
\* are trimmed
RECURSIVE CollapseSpace(_)
CollapseSpace(s) ==
    IF s = <<>> THEN <<>>
    ELSE IF ~IsSpace(Head(s)) THEN <<Head(s)>> \o CollapseSpace(Tail(s))
    ELSE IF Len(s) > 1 /\ IsSpace(s[2]) THEN CollapseSpace(Tail(s))
    ELSE <<" ">> \o CollapseSpace(Tail(s))

clean_text(text) == Strip(CollapseSpace(text))

\* safe_int(cell.get(key), default): the default when the key is missing
safe_int(cell, key, default) ==
    IF key \in DOMAIN cell THEN cell[key] ELSE default

\* needle in haystack
IsSubstring(needle, haystack) ==
    \E p \in 0 .. (Len(haystack) - Len(needle)) : StartsWithAt(haystack, needle, p)

Separator == <<" ", "/", " ">>

\* the value of one grid position after text is written to it
WriteCell(current, text) ==
    IF current # <<>> /\ ~IsSubstring(text, current) THEN current \o Separator \o text
    ELSE IF current = <<>> THEN text
    ELSE current

\* the offsets of a cell as the loop uses them
RowStart(cell) == safe_int(cell, "start_row_offset_idx", -1)

\* RowEnd with a fault: the end row is not clamped to the grid
RowEndUnclamped(cell, rows) == safe_int(cell, "end_row_offset_idx", RowStart(cell))

RowEnd(cell, rows) == Min(safe_int(cell, "end_row_offset_idx", RowStart(cell)), rows - 1)

ColStart(cell) == safe_int(cell, "start_col_offset_idx", -1)

ColEnd(cell, cols) == Min(safe_int(cell, "end_col_offset_idx", ColStart(cell)), cols - 1)

\* the cell is skipped: no text, or a negative start
CellSkipped(cell) ==
    clean_text(cell.text) = <<>> \/ RowStart(cell) < 0 \/ ColStart(cell) < 0

\* Covered with a fault: every column of the rows of the span is visited
CoveredWholeRows(cell, rows, cols) ==
    (RowStart(cell) .. RowEnd(cell, rows)) \X (0 .. cols - 1)

\* Covered with a fault: only the start position of the span is visited
CoveredStartOnly(cell, rows, cols) ==
    {<<RowStart(cell), ColStart(cell)>>}

\* the grid positions (0-based) the two range loops visit
Covered(cell, rows, cols) ==
    (RowStart(cell) .. RowEnd(cell, rows)) \X (ColStart(cell) .. ColEnd(cell, cols))

\* a list of n elements has no element i: the subscript raises IndexError
IndexError(i, n) == i >= n \/ i < -n

\* the element (0-based) the subscript i denotes in a list of n elements: a
\* negative subscript counts from the end
ListIndex(i, n) == IF i < 0 THEN i + n ELSE i

\* matrix[row_idx][col_idx] raises for some position the loops visit
Raises(cell, rows, cols) ==
    \E pos \in Covered(cell, rows, cols) :
        IndexError(pos[1], rows) \/ IndexError(pos[2], cols)

\* [["" for _ in range(cols)] for _ in range(rows)]
EmptyMatrix(rows, cols) == [r \in 1 .. rows |-> [c \in 1 .. cols |-> <<>>]]

\* the matrix after the two range loops of one cell
FillCell(matrix, cell, rows, cols) ==
    [r \in 1 .. rows |-> [c \in 1 .. cols |->
        IF \E pos \in Covered(cell, rows, cols) :
                ListIndex(pos[1], rows) = r - 1 /\ ListIndex(pos[2], cols) = c - 1
        THEN WriteCell(matrix[r][c], clean_text(cell.text))
        ELSE matrix[r][c]]]

\* any(cell.strip() for cell in row)
RowHasText(row) == \E c \in 1 .. Len(row) : Strip(row[c]) # <<>>

\* DropBlankRows with a fault: every row is kept
KeepAllRows(matrix) == matrix

\* [row for row in matrix if any(cell.strip() for cell in row)]
RECURSIVE DropBlankRows(_)
DropBlankRows(matrix) ==
    IF matrix = <<>> THEN <<>>
    ELSE IF RowHasText(Head(matrix)) THEN <<Head(matrix)>> \o DropBlankRows(Tail(matrix))
    ELSE DropBlankRows(Tail(matrix))

\* the loop over table_cells, from matrix on
RECURSIVE FillAll(_, _, _, _)
FillAll(matrix, cells, rows, cols) ==
    IF cells = <<>> THEN matrix
    ELSE FillAll(IF CellSkipped(Head(cells)) THEN matrix
                 ELSE FillCell(matrix, Head(cells), rows, cols),
                 Tail(cells), rows, cols)

\* the value table_to_matrix returns for a table that does not make it raise
table_to_matrix(cells, rows, cols) ==
    IF rows <= 0 \/ cols <= 0 THEN <<>>
    ELSE DropBlankRows(FillAll(EmptyMatrix(rows, cols), cells, rows, cols))

InitTableFrame(maxCells, maxRows, maxCols) ==
    {[pc |-> "call", rows |-> r, cols |-> c, table_cells |-> cs, k |-> 0,
      matrix |-> <<>>, result |-> <<>>] :
        r \in 0 .. maxRows, c \in 0 .. maxCols,
        cs \in UNION {[1 .. n -> CellCorpus] : n \in 0 .. maxCells}}

\* the check of the declared counts and the allocation of the grid
TableStart ==
    /\ table.pc = "call"
    /\ table' = IF table.rows <= 0 \/ table.cols <= 0
                THEN [table EXCEPT !.pc = "done", !.result = <<>>]
                ELSE [table EXCEPT !.pc = "loop",
                                   !.matrix = EmptyMatrix(table.rows, table.cols)]
    /\ UNCHANGED <<chunk, annot, xref, sect, image, proc, build, main>>

\* a cell without text or with a negative start is skipped
TableSkipCell ==
    /\ table.pc = "loop"
    /\ table.k < Len(table.table_cells)
    /\ CellSkipped(table.table_cells[table.k + 1])
    /\ table' = [table EXCEPT !.k = table.k + 1]
    /\ UNCHANGED <<chunk, annot, xref, sect, image, proc, build, main>>

\* the text of a cell is written to every position of its span; a
\* subscript outside the grid raises and ends the call
TableFillCell ==
    /\ table.pc = "loop"
    /\ table.k < Len(table.table_cells)
    /\ ~CellSkipped(table.table_cells[table.k + 1])
    /\ table' = IF Raises(table.table_cells[table.k + 1], table.rows, table.cols)
                THEN [table EXCEPT !.pc = "raised"]
                ELSE [table EXCEPT
                        !.matrix = FillCell(table.matrix, table.table_cells[table.k + 1],
                                            table.rows, table.cols),
                        !.k = table.k + 1]
    /\ UNCHANGED <<chunk, annot, xref, sect, image, proc, build, main>>

\* the rows with text are returned
TableReturn ==
    /\ table.pc = "loop"
    /\ table.k = Len(table.table_cells)
    /\ table' = [table EXCEPT !.result = DropBlankRows(table.matrix), !.pc = "done"]
    /\ UNCHANGED <<chunk, annot, xref, sect, image, proc, build, main>>

InitTable ==
    /\ table \in InitTableFrame(MaxCells, MaxRows, MaxCols)
    /\ chunk = Idle /\ annot = Idle /\ xref = Idle /\ sect = Idle /\ image = Idle /\ proc = Idle
    /\ build = Idle /\ main = Idle

NextTable == TableStart \/ TableSkipCell \/ TableFillCell \/ TableReturn

SpecTable == InitTable /\ [][NextTable]_vars

-----------------------------------------------------------------------------
(* export_images and replace_image_placeholders *)

\* the placeholder token "<!-- image -->"
Token == <<"<", "!", "-", "-", " ", "i", "m", "a", "g", "e", " ", "-", "-", ">">>

\* the pieces the raw markdown of the model is made of
ImagePieces == {Token, <<"a">>, <<"\n">>, <<"<", "!">>}

\* the texts of at most n pieces of corpus, one after the other
RECURSIVE Concat(_)
Concat(pieces) == IF pieces = <<>> THEN <<>> ELSE Head(pieces) \o Concat(Tail(pieces))

PiecesUpTo(corpus, n) == {Concat(d) : d \in UNION {[1 .. k -> corpus] : k \in 0 .. n}}

DocId == <<"d">>

\* the items doc.iterate_items yields: a picture with a caption, a picture
\* without caption, a picture that cannot be rendered, an item that is no
\* picture; page_no 0 stands for an item without provenance
ItemCorpus ==
    {[picture |-> TRUE, rendered |-> TRUE, caption |-> <<"F", " ", " ", "[", "1", "]">>, page_no |-> 3],
     [picture |-> TRUE, rendered |-> TRUE, caption |-> <<>>, page_no |-> 0],
     [picture |-> TRUE, rendered |-> FALSE, caption |-> <<"G">>, page_no |-> 1],
     [picture |-> FALSE, rendered |-> FALSE, caption |-> <<>>, page_no |-> 1]}

\* f"{n:03d}"
Format03d(n) ==
    IF n < 10 THEN <<"0", "0">> \o IntToStr(n)
    ELSE IF n < 100 THEN <<"0">> \o IntToStr(n)
    ELSE IntToStr(n)

\* f"{doc_id}_img_{image_index:03d}.png"
FileName(doc_id, image_index) ==
    doc_id \o <<"_", "i", "m", "g", "_">> \o Format03d(image_index) \o <<".", "p", "n", "g">>

\* image_path.relative_to(doc_output_dir).as_posix()
RelativePath(file_name) == <<"_", "i", "m", "a", "g", "e", "s", "/">> \o file_name

\* f"{doc_id} image {image_index}"
DefaultAlt(doc_id, image_index) ==
    doc_id \o <<" ", "i", "m", "a", "g", "e", " ">> \o IntToStr(image_index)

\* None, where a page number is expected
NoPage == 0

\* no exit code yet
NoExit == -1

\* get_page_no(item)
get_page_no(item) == IF item.page_no > 0 THEN item.page_no ELSE NoPage

\* the dict export_images appends for a rendered picture
ImageRef(item, doc_id, image_index) ==
    [index |-> image_index,
     alt |-> clean_text(IF item.caption = <<>> THEN DefaultAlt(doc_id, image_index)
                        ELSE item.caption),
     relative_path |-> RelativePath(FileName(doc_id, image_index)),
     page_no |-> get_page_no(item)]

\* str.replace("[", r"\[").replace("]", r"\]")
RECURSIVE EscapeBrackets(_)
EscapeBrackets(s) ==
    IF s = <<>> THEN <<>>
    ELSE IF Head(s) \in {"[", "]"} THEN <<"\\", Head(s)>> \o EscapeBrackets(Tail(s))
    ELSE <<Head(s)>> \o EscapeBrackets(Tail(s))

escape_markdown_alt(text) == EscapeBrackets(clean_text(text))

\* s.find(sep, p): the least offset at or after p where sep is, or -1
Find(s, sep, p) ==
    LET hits == {i \in p .. (Len(s) - Len(sep)) : Slice(s, i, i + Len(sep)) = sep}
    IN  IF hits = {} THEN -1 ELSE CHOOSE i \in hits : \A j \in hits : i <= j

\* s.split(sep), from offset p on
RECURSIVE SplitFrom(_, _, _)
SplitFrom(s, sep, p) ==
    IF Find(s, sep, p) = -1 THEN <<Slice(s, p, Len(s))>>
    ELSE <<Slice(s, p, Find(s, sep, p))>> \o SplitFrom(s, sep, Find(s, sep, p) + Len(sep))

Split(s, sep) == SplitFrom(s, sep, 0)

\* f"![{alt}]({image['relative_path']})"
ImageMarkdown(img) ==
    <<"!", "[">> \o escape_markdown_alt(img.alt) \o <<"]", "(">> \o img.relative_path \o <<")">>

\* f"![image_{idx:03d}](#image_{idx:03d})"
FallbackMarkdown(idx) ==
    <<"!", "[", "i", "m", "a", "g", "e", "_">> \o Format03d(idx)
        \o <<"]", "(", "#", "i", "m", "a", "g", "e", "_">> \o Format03d(idx) \o <<")">>

\* PlaceholderOut with a fault: a placeholder without image is dropped
PlaceholderOutDropped(idx, images) ==
    IF idx <= Len(images) THEN ImageMarkdown(images[idx]) ELSE <<>>

\* what replaces the idx-th placeholder
PlaceholderOut(idx, images) ==
    IF idx <= Len(images) THEN ImageMarkdown(images[idx]) ELSE FallbackMarkdown(idx)

\* Locals of the two functions and of their caller: the items of the
\* document and k, the number of items export_images has seen; image_dir,
\* whether the _images directory exists, and saved, the files in it; parts,
\* idx and output of replace_image_placeholders; result, what it returns.
InitImageFrame(maxPieces, maxItems) ==
    {[pc |-> "call", raw_markdown |-> md, items |-> its, no_images |-> ni,
      k |-> 0, image_index |-> 0, images |-> <<>>, image_dir |-> FALSE, saved |-> <<>>,
      parts |-> <<>>, idx |-> 1, output |-> <<>>, result |-> <<>>] :
        md \in PiecesUpTo(ImagePieces, maxPieces),
        its \in UNION {[1 .. n -> ItemCorpus] : n \in 0 .. maxItems},
        ni \in BOOLEAN}

\* images = []; if not no_images: export_images(...), which makes _images
ImageStart ==
    /\ image.pc = "call"
    /\ image' = IF image.no_images THEN [image EXCEPT !.pc = "replace"]
                ELSE [image EXCEPT !.pc = "export", !.image_dir = TRUE]
    /\ UNCHANGED <<chunk, annot, xref, sect, table, proc, build, main>>

\* an item that is no picture is passed over
ExportSkipItem ==
    /\ image.pc = "export"
    /\ image.k < Len(image.items)
    /\ ~image.items[image.k + 1].picture
    /\ image' = [image EXCEPT !.k = image.k + 1]
    /\ UNCHANGED <<chunk, annot, xref, sect, table, proc, build, main>>

\* a picture without image counts but gives no entry
ExportNoImage ==
    /\ image.pc = "export"
    /\ image.k < Len(image.items)
    /\ image.items[image.k + 1].picture
    /\ ~image.items[image.k + 1].rendered
    /\ image' = [image EXCEPT !.k = image.k + 1, !.image_index = image.image_index + 1]
    /\ UNCHANGED <<chunk, annot, xref, sect, table, proc, build, main>>

\* a rendered picture is saved and gives an entry
ExportPicture ==
    /\ image.pc = "export"
    /\ image.k < Len(image.items)
    /\ image.items[image.k + 1].picture
    /\ image.items[image.k + 1].rendered
    /\ image' = [image EXCEPT
            !.k = image.k + 1,
            !.image_index = image.image_index + 1,
            !.saved = Append(image.saved, FileName(DocId, image.image_index + 1)),
            !.images = Append(image.images,
                              ImageRef(image.items[image.k + 1], DocId, image.image_index + 1))]
    /\ UNCHANGED <<chunk, annot, xref, sect, table, proc, build, main>>

\* an empty _images directory is removed; return images
ExportReturn ==
    /\ image.pc = "export"
    /\ image.k = Len(image.items)
    /\ image' = [image EXCEPT !.image_dir = image.images # <<>>, !.pc = "replace"]
    /\ UNCHANGED <<chunk, annot, xref, sect, table, proc, build, main>>

\* parts = markdown.split(token); a text without placeholder is returned
ReplaceSplit ==
    /\ image.pc = "replace"
    /\ LET parts == Split(image.raw_markdown, Token)
       IN  image' = IF Len(parts) = 1
                    THEN [image EXCEPT !.parts = parts, !.result = image.raw_markdown,
                                       !.pc = "done"]
                    ELSE [image EXCEPT !.parts = parts, !.idx = 1, !.pc = "loop"]
    /\ UNCHANGED <<chunk, annot, xref, sect, table, proc, build, main>>

\* one iteration over parts[:-1]: the part, then what replaces the placeholder
ReplacePart ==
    /\ image.pc = "loop"
    /\ image.idx <= Len(image.parts) - 1
    /\ image' = [image EXCEPT
            !.output = image.output \o <<image.parts[image.idx],
                                         PlaceholderOut(image.idx, image.images)>>,
            !.idx = image.idx + 1]
    /\ UNCHANGED <<chunk, annot, xref, sect, table, proc, build, main>>

\* output.append(parts[-1]); return "".join(output)
ReplaceReturn ==
    /\ image.pc = "loop"
    /\ image.idx = Len(image.parts)
    /\ image' = [image EXCEPT
            !.output = Append(image.output, image.parts[Len(image.parts)]),
            !.result = Concat(Append(image.output, image.parts[Len(image.parts)])),
            !.pc = "done"]
    /\ UNCHANGED <<chunk, annot, xref, sect, table, proc, build, main>>

InitImage ==
    /\ image \in InitImageFrame(MaxPieces, MaxItems)
    /\ chunk = Idle /\ annot = Idle /\ xref = Idle /\ sect = Idle /\ table = Idle
    /\ proc = Idle
    /\ build = Idle /\ main = Idle

NextImage ==
    \/ ImageStart \/ ExportSkipItem \/ ExportNoImage \/ ExportPicture \/ ExportReturn
    \/ ReplaceSplit \/ ReplacePart \/ ReplaceReturn

SpecImage == InitImage /\ [][NextImage]_vars

-----------------------------------------------------------------------------
(* process_document *)

\* the members of ConversionStatus and their values
StatusValue ==
    [PENDING |-> "pending", STARTED |-> "started", FAILURE |-> "failure",
     SUCCESS |-> "success", PARTIAL_SUCCESS |-> "partial_success", SKIPPED |-> "skipped"]

Statuses == DOMAIN StatusValue

\* the messages of the errors of a conversion result
ErrorCorpus ==
    {<<"p", "d", "f", "i", "u", "m">>,
     <<"O", "C", "R", " ", "T", "i", "m", "e", "o", "u", "t">>,
     <<"b", "a", "d">>}

\* None, where a record is expected
NoRecord == [none |-> TRUE]

\* the documents a conversion result can carry: none, or a document given by
\* what the normalization stages and the table writer make of it
DocumentCorpus ==
    {NoRecord,
     [sections |-> 1, chunks |-> 1, pictures |-> 0,
      tables_detected |-> 0, tables_rendered |-> 0, table_blocks_in_markdown |-> 0],
     [sections |-> 2, chunks |-> 3, pictures |-> 1,
      tables_detected |-> 2, tables_rendered |-> 1, table_blocks_in_markdown |-> 1]}

\* " ".join(errors)
RECURSIVE JoinSpaces(_)
JoinSpaces(errors) ==
    IF errors = <<>> THEN <<>>
    ELSE IF Len(errors) = 1 THEN errors[1]
    ELSE errors[1] \o <<" ">> \o JoinSpaces(Tail(errors))

HintPdfium == "PDF backend hint: retry with --no-ocr, then try --pdf-backend pypdfium2 (or docling_parse) and inspect this document's meta.json."

HintOcr == "OCR hint: run with --no-ocr for text-first extraction or install/configure OCR engine dependencies."

HintTimeout == "Timeout hint: retry this file alone, reduce concurrent load, or increase conversion timeout upstream."

derive_failure_warnings(errors) ==
    LET combined == Lower(JoinSpaces(errors))
    IN  (IF IsSubstring(<<"p", "d", "f", "i", "u", "m">>, combined) THEN <<HintPdfium>> ELSE <<>>)
        \o (IF IsSubstring(<<"o", "c", "r">>, combined)
               \/ IsSubstring(<<"t", "e", "s", "s", "e", "r", "a", "c", "t">>, combined)
            THEN <<HintOcr>> ELSE <<>>)
        \o (IF IsSubstring(<<"t", "i", "m", "e", "o", "u", "t">>, combined)
            THEN <<HintTimeout>> ELSE <<>>)

WarningFailed == "Conversion failed or returned no datasheet content."

WarningTables == "Markdown table blocks are fewer than detected tables; use .tables.md when table fidelity is critical."

\* getattr(result, "status", ConversionStatus.FAILURE)
StatusObj(result) == IF "status" \in DOMAIN result THEN result.status ELSE "FAILURE"

\* ConversionFailed with a fault: the status is not looked at
ConversionFailedNoDocumentOnly(doc, status_obj) == doc = NoRecord

\* doc is None or status_obj not in {SUCCESS, PARTIAL_SUCCESS}
ConversionFailed(doc, status_obj) ==
    doc = NoRecord \/ status_obj \notin {"SUCCESS", "PARTIAL_SUCCESS"}

\* build_meta, less the fields that name the document and the time
build_meta(status, errors, sections, chunks, images, tables_detected, tables_rendered, table_blocks_in_markdown, warnings) ==
    [status |-> status, errors |-> errors, sections |-> sections, chunks |-> chunks,
     images |-> images, tables_detected |-> tables_detected,
     tables_rendered |-> tables_rendered,
     table_blocks_in_markdown |-> table_blocks_in_markdown, warnings |-> warnings]

\* the stages of the normalization, in the order of their calls
Stages ==
    <<"replace_image_placeholders", "annotate_headings", "normalize_cross_references",
      "extract_sections", "build_section_chunks">>

\* Locals of process_document: the conversion result, status_value, the
\* number of exported images and the warnings; stages, the normalization
\* stages called so far; files, the artifacts written so far (by the key of
\* output_files); doc_output_dir, whether the directory of the document
\* exists; meta, the record written last; returned, the value returned.
InitProcFrame(maxErrors) ==
    {[pc |-> "call", result |-> [status |-> st, document |-> doc, errors |-> errs],
      no_images |-> ni, status_value |-> "", images |-> 0, stages |-> <<>>,
      files |-> {}, doc_output_dir |-> FALSE, meta |-> NoRecord, returned |-> NoRecord] :
        st \in Statuses, doc \in DocumentCorpus,
        errs \in UNION {[1 .. n -> ErrorCorpus] : n \in 0 .. maxErrors},
        ni \in BOOLEAN}

\* converter.convert, status_value, build_output_files
ProcConvert ==
    /\ proc.pc = "call"
    /\ proc' = [proc EXCEPT !.status_value = StatusValue[StatusObj(proc.result)],
                            !.doc_output_dir = TRUE,
                            !.pc = "converted"]
    /\ UNCHANGED <<chunk, annot, xref, sect, table, image, build, main>>

\* without document or success the meta of the failure is written and returned
ProcFail ==
    /\ proc.pc = "converted"
    /\ ConversionFailed(proc.result.document, StatusObj(proc.result))
    /\ LET meta == build_meta(proc.status_value, proc.result.errors, 0, 0, 0, 0, 0, 0,
                              <<WarningFailed>> \o derive_failure_warnings(proc.result.errors))
       IN  proc' = [proc EXCEPT !.meta = meta,
                                !.files = proc.files \cup {"meta_json"},
                                !.returned = meta,
                                !.pc = "done"]
    /\ UNCHANGED <<chunk, annot, xref, sect, table, image, build, main>>

\* the exports of the document and the normalization stages
ProcNormalize ==
    /\ proc.pc = "converted"
    /\ ~ConversionFailed(proc.result.document, StatusObj(proc.result))
    /\ proc' = [proc EXCEPT
            !.images = IF proc.no_images THEN 0 ELSE proc.result.document.pictures,
            !.stages = (IF proc.no_images THEN <<>> ELSE <<"export_images">>) \o Stages,
            !.pc = "normalized"]
    /\ UNCHANGED <<chunk, annot, xref, sect, table, image, build, main>>

\* the markdown, the chunks, the document model and the tables are written
ProcWrite ==
    /\ proc.pc = "normalized"
    /\ proc' = [proc EXCEPT
            !.files = proc.files \cup {"markdown", "sections_jsonl", "docling_json",
                                       "tables_markdown"},
            !.pc = "written"]
    /\ UNCHANGED <<chunk, annot, xref, sect, table, image, build, main>>

\* the meta of the normalized document is written and returned
ProcReport ==
    /\ proc.pc = "written"
    /\ LET doc  == proc.result.document
           meta == build_meta(proc.status_value, proc.result.errors, doc.sections,
                              doc.chunks, proc.images, doc.tables_detected,
                              doc.tables_rendered, doc.table_blocks_in_markdown,
                              IF doc.tables_detected > 0
                                    /\ doc.table_blocks_in_markdown < doc.tables_detected
                              THEN <<WarningTables>> ELSE <<>>)
       IN  proc' = [proc EXCEPT !.meta = meta,
                                !.files = proc.files \cup {"meta_json"},
                                !.returned = meta,
                                !.pc = "done"]
    /\ UNCHANGED <<chunk, annot, xref, sect, table, image, build, main>>

InitProc ==
    /\ proc \in InitProcFrame(MaxErrors)
    /\ chunk = Idle /\ annot = Idle /\ xref = Idle /\ sect = Idle /\ table = Idle
    /\ image = Idle
    /\ build = Idle /\ main = Idle

NextProc == ProcConvert \/ ProcFail \/ ProcNormalize \/ ProcWrite \/ ProcReport

SpecProc == InitProc /\ [][NextProc]_vars

-----------------------------------------------------------------------------
(* process_document: annotate_headings, normalize_cross_references and      *)
(* extract_sections, each on the output of the one before                   *)

\* the lines of markdown_with_images: headings (one with the title of the
\* preamble section, one that mentions a table, one that repeats), a
\* reference, a fence, an anchor marker line from upstream
PipelineCorpus ==
    {<<"#", " ", "D", "o", "c", "u", "m", "e", "n", "t", " ", "S", "t", "a", "r", "t">>,
     <<"#", "#", " ", "O", "n", " ", "T", "a", "b", "l", "e", " ", "1">>,
     <<"#", " ", "F", "o", "o">>,
     <<"S", "e", "e", " ", "T", "a", "b", "l", "e", " ", "1">>,
     <<Backtick, Backtick, Backtick>>,
     <<"<", "a", " ", "i", "d", "=", "\"", "x", "\"", ">", "<", "/", "a", ">">>}

\* markdown_with_anchors, ref_targets = annotate_headings(markdown_with_images)
InitPipelineFrame(maxLines) ==
    {[f EXCEPT !.markdown = md] :
        f \in InitAnnotFrame(0), md \in DocsUpTo(PipelineCorpus, maxLines)}

\* normalized_markdown = normalize_cross_references(markdown_with_anchors,
\*                                                  ref_targets=ref_targets)
PipelineNormalize ==
    /\ annot.pc = "done"
    /\ xref = Idle
    /\ xref' = [(CHOOSE f \in InitXrefFrame(0) : f.ref_targets = EmptyDict) EXCEPT
                    !.markdown = annot.result, !.ref_targets = annot.ref_targets]
    /\ UNCHANGED <<chunk, annot, sect, table, image, proc, build, main>>

\* sections = extract_sections(normalized_markdown)
PipelineExtract ==
    /\ xref.pc = "done"
    /\ sect = Idle
    /\ sect' = [(CHOOSE f \in InitSectFrame(0) : TRUE) EXCEPT !.markdown = xref.result]
    /\ UNCHANGED <<chunk, annot, xref, table, image, proc, build, main>>

InitPipeline ==
    /\ annot \in InitPipelineFrame(MaxLines)
    /\ chunk = Idle /\ xref = Idle /\ sect = Idle /\ table = Idle /\ image = Idle /\ proc = Idle
    /\ build = Idle /\ main = Idle

NextPipeline == NextAnnot \/ PipelineNormalize \/ NextXref \/ PipelineExtract \/ NextSect

SpecPipeline == InitPipeline /\ [][NextPipeline]_vars

-----------------------------------------------------------------------------
(* build_section_chunks *)

\* the texts of the sections: extract_sections returns them trimmed and not
\* empty
SectionTexts ==
    {<<"a">>, <<"a", " ", "a">>, <<"a", "a", " ", "a">>, <<"a", " ", " ", "a">>,
     <<"a", "a", "a", " ", "a">>, <<"a", "\n", "\n", "a">>}

SectionCorpus ==
    {[title |-> <<"F", "o", "o">>, anchor |-> <<"f", "o", "o">>, level |-> 1, text |-> t] :
        t \in SectionTexts}

\* str(source_file)
SourceFile == <<"d", ".", "p", "d", "f">>

\* ChunkId with a fault: the section index is left out
ChunkIdNoSection(doc_id, sec_index, chunk_index) ==
    doc_id \o <<"_", "s", "0", "0", "1", "_", "c">> \o Format03d(chunk_index)

\* f"{doc_id}_s{sec_index:03d}_c{chunk_index:03d}"
ChunkId(doc_id, sec_index, chunk_index) ==
    doc_id \o <<"_", "s">> \o Format03d(sec_index) \o <<"_", "c">> \o Format03d(chunk_index)

\* the dict appended to rows for one chunk
ChunkRow(doc_id, sec_index, section, chunk_index, piece) ==
    [chunk_id |-> ChunkId(doc_id, sec_index, chunk_index),
     doc_id |-> doc_id,
     source_file |-> SourceFile,
     section_title |-> section.title,
     section_anchor |-> section.anchor,
     section_level |-> section.level,
     text |-> piece,
     char_count |-> Len(piece)]

\* InitialStart with a fault: the generator resumes where the last one stopped
InitialStartCarried(start) == start

\* start = 0, whatever an earlier generator left behind
InitialStart(start) == 0

\* Locals of build_section_chunks and of the chunk_text generator it is
\* enumerating (normalized, size, start); origin, the section index of every
\* row; run, the number of the call on these arguments, and earlier, the
\* rows the call before it returned.
InitBuildFrame(maxSections, maxChars) ==
    {[pc |-> "call", doc_id |-> DocId, sections |-> secs,
      max_chars |-> p[1], overlap |-> p[2],
      rows |-> <<>>, origin |-> <<>>, sec_index |-> 0, chunk_index |-> 0,
      normalized |-> <<>>, size |-> 0, start |-> 0,
      run |-> 1, earlier |-> <<>>, result |-> <<>>] :
        secs \in UNION {[1 .. n -> SectionCorpus] : n \in 0 .. maxSections},
        p \in ChunkParams(maxChars)}

\* rows = []
BuildStart ==
    /\ build.pc = "call"
    /\ build' = [build EXCEPT !.rows = <<>>, !.origin = <<>>, !.sec_index = 0,
                              !.pc = "sections"]
    /\ UNCHANGED <<chunk, annot, xref, sect, table, image, proc, main>>

\* the next section: chunk_text(section.text, ...) up to its loop
BuildSection ==
    /\ build.pc = "sections"
    /\ build.sec_index < Len(build.sections)
    /\ LET normalized == Strip(build.sections[build.sec_index + 1].text)
       IN  build' = [build EXCEPT
                !.sec_index = build.sec_index + 1,
                !.chunk_index = 0,
                !.normalized = normalized,
                !.size = Len(normalized),
                !.start = InitialStart(build.start),
                !.pc = IF normalized = <<>> THEN "sections" ELSE "chunks"]
    /\ UNCHANGED <<chunk, annot, xref, sect, table, image, proc, main>>

\* one iteration of the generator's loop, and the row of the chunk it yields
BuildChunk ==
    /\ build.pc = "chunks"
    /\ build.chunk_index < MaxChunkIndex
    /\ LET start == build.start
           size  == build.size
           end   == IterEnd(build.normalized, size, start, build.max_chars)
           piece == Strip(Slice(build.normalized, start, end))
           index == build.chunk_index + 1
           row   == ChunkRow(build.doc_id, build.sec_index,
                             build.sections[build.sec_index], index, piece)
       IN  IF start < size
           THEN build' = [build EXCEPT
                    !.rows = IF Yields(piece) THEN Append(build.rows, row) ELSE build.rows,
                    !.origin = IF Yields(piece) THEN Append(build.origin, build.sec_index)
                               ELSE build.origin,
                    !.chunk_index = IF Yields(piece) THEN index ELSE build.chunk_index,
                    !.start = IF end >= size THEN start ELSE NextStart(end, build.overlap),
                    !.pc = IF end >= size THEN "sections" ELSE "chunks"]
           ELSE build' = [build EXCEPT !.pc = "sections"]
    /\ UNCHANGED <<chunk, annot, xref, sect, table, image, proc, main>>

\* return rows
BuildReturn ==
    /\ build.pc = "sections"
    /\ build.sec_index = Len(build.sections)
    /\ build' = [build EXCEPT !.result = build.rows, !.pc = "done"]
    /\ UNCHANGED <<chunk, annot, xref, sect, table, image, proc, main>>

\* the same call once more, on the same arguments
BuildAgain ==
    /\ build.pc = "done"
    /\ build.run = 1
    /\ build' = [build EXCEPT !.run = 2, !.earlier = build.result, !.pc = "call"]
    /\ UNCHANGED <<chunk, annot, xref, sect, table, image, proc, main>>

InitBuild ==
    /\ build \in InitBuildFrame(MaxSections, MaxSectionChars)
    /\ chunk = Idle /\ annot = Idle /\ xref = Idle /\ sect = Idle /\ table = Idle
    /\ image = Idle /\ proc = Idle /\ main = Idle

NextBuild == BuildStart \/ BuildSection \/ BuildChunk \/ BuildReturn \/ BuildAgain

SpecBuild == InitBuild /\ [][NextBuild]_vars

-----------------------------------------------------------------------------
(* main, process_document_safe and should_retry_without_ocr *)

\* --chunk-max-chars and --chunk-overlap as given on the command line
ArgCorpus == {<<0, 0>>, <<-1, 0>>, <<2, -1>>, <<2, 2>>, <<1, 3>>, <<1, 0>>, <<2, 1>>}

\* resolve_format(source_path) of the collected files
Formats == {"PDF", "DOCX"}

\* SUCCESS_STATUSES
SUCCESS_STATUSES == {StatusValue["SUCCESS"], StatusValue["PARTIAL_SUCCESS"]}

\* what a call of process_document_safe can do: return the meta of
\* process_document with the status of the conversion, catch an exception of
\* process_document and return a meta with status UNEXPECTED_ERROR
\* ("raise"), raise itself because build_output_files or write_meta_file
\* fail in the handler as they did in process_document ("raise_output"), or
\* not return because chunk_text does not ("hang")
Outcomes ==
    {StatusValue["SUCCESS"], StatusValue["PARTIAL_SUCCESS"], StatusValue["FAILURE"],
     "raise", "raise_output", "hang"}

WarningUnhandled == "Unhandled exception occurred while processing this document."

\* f"Initial conversion status was {initial_status}; retried once with OCR
\* disabled (--no-ocr)."
RetryWarning(initial_status) ==
    <<"Initial conversion status was ", initial_status,
      "; retried once with OCR disabled (--no-ocr).">>

\* the meta process_document_safe returns for an outcome
SafeMeta(doc, outcome) ==
    IF outcome = "raise"
    THEN [doc |-> doc, status |-> "UNEXPECTED_ERROR", warnings |-> <<<<WarningUnhandled>>>>]
    ELSE IF outcome \in SUCCESS_STATUSES
    THEN [doc |-> doc, status |-> outcome, warnings |-> <<>>]
    ELSE [doc |-> doc, status |-> outcome, warnings |-> <<<<WarningFailed>>>>]

\* ParamsRejected with a fault: overlap is not compared with max_chars
ParamsRejectedNoUpperLimit(chunk_max_chars, chunk_overlap) ==
    chunk_max_chars <= 0 \/ chunk_overlap < 0

\* the three tests of the chunk parameters
ParamsRejected(chunk_max_chars, chunk_overlap) ==
    chunk_max_chars <= 0 \/ chunk_overlap < 0 \/ chunk_overlap >= chunk_max_chars

\* should_retry_without_ocr with a fault: the format is not looked at
should_retry_any_format(format, status, no_ocr, disable_retry) ==
    ~(disable_retry \/ no_ocr) /\ status \notin SUCCESS_STATUSES

\* should_retry_without_ocr(source_path, status, no_ocr, disable_retry)
should_retry_without_ocr(format, status, no_ocr, disable_retry) ==
    IF disable_retry \/ no_ocr THEN FALSE
    ELSE IF format # "PDF" THEN FALSE
    ELSE status \notin SUCCESS_STATUSES

\* the record of one call of process_document_safe: the document, the
\* converter's do_ocr, the chunk parameters passed on, what the call did
Call(doc, do_ocr, f, outcome) ==
    [doc |-> doc, do_ocr |-> do_ocr, max_chars |-> f.chunk_max_chars,
     overlap |-> f.chunk_overlap, outcome |-> outcome]

\* how a call of process_document_safe leaves main
AfterCall(outcome, returned) ==
    IF outcome = "raise_output" THEN "crashed" ELSE IF outcome = "hang" THEN "hung" ELSE returned

\* the exit code after the loop
ExitCode(metas, fail_on_error) ==
    LET successes == {i \in 1 .. Len(metas) : metas[i].status \in SUCCESS_STATUSES}
        failures  == {i \in 1 .. Len(metas) : i \notin successes}
    IN  IF failures # {} /\ fail_on_error THEN 1
        ELSE IF successes = {} THEN 1
        ELSE 0

\* The arguments of main that the batch depends on, the files
\* collect_sources finds (by format, in sorted order), and its locals: idx,
\* the number of sources done, meta, metas, whether the retry converter was
\* built; calls, every call of process_document_safe so far; index, the
\* documents of knowledge.index.json; exit, the exit code (NoExit while
\* main runs; an escaped exception ends the interpreter with 1).
InitMainFrame(maxSources) ==
    {[pc |-> "call", chunk_max_chars |-> p[1], chunk_overlap |-> p[2],
      fast |-> b[1], no_ocr |-> b[2], no_retry_no_ocr |-> b[3],
      skip_preflight |-> b[4], fail_on_error |-> b[5],
      found |-> srcs, source_paths |-> <<>>, idx |-> 0,
      meta |-> NoRecord, metas |-> <<>>, retry_converter_without_ocr |-> FALSE,
      calls |-> <<>>, index |-> <<>>, index_written |-> FALSE, exit |-> NoExit] :
        p \in ArgCorpus, b \in [1 .. 5 -> BOOLEAN],
        srcs \in UNION {[1 .. n -> Formats] : n \in 0 .. maxSources}}

\* --fast forces --no-ocr; the chunk parameters are tested before all else
MainValidate ==
    /\ main.pc = "call"
    /\ main' = IF ParamsRejected(main.chunk_max_chars, main.chunk_overlap)
               THEN [main EXCEPT !.no_ocr = main.no_ocr \/ main.fast, !.exit = 2, !.pc = "done"]
               ELSE [main EXCEPT !.no_ocr = main.no_ocr \/ main.fast, !.pc = "preflight"]
    /\ UNCHANGED <<chunk, annot, xref, sect, table, image, proc, build>>

\* the dependency preflight, unless skipped
MainPreflight ==
    /\ main.pc = "preflight"
    /\ \E preflight_ok \in BOOLEAN :
        main' = IF main.skip_preflight \/ preflight_ok
                THEN [main EXCEPT !.pc = "collect"]
                ELSE [main EXCEPT !.exit = 2, !.pc = "done"]
    /\ UNCHANGED <<chunk, annot, xref, sect, table, image, proc, build>>

\* collect_sources: a missing path, no supported file, or the sorted files
MainCollect ==
    /\ main.pc = "collect"
    /\ \E missing \in BOOLEAN :
        main' = IF missing \/ main.found = <<>>
                THEN [main EXCEPT !.exit = 2, !.pc = "done"]
                ELSE [main EXCEPT !.source_paths = main.found, !.pc = "loop"]
    /\ UNCHANGED <<chunk, annot, xref, sect, table, image, proc, build>>

\* meta = process_document_safe(..., converter=primary_converter, ...)
MainProcess ==
    /\ main.pc = "loop"
    /\ main.idx < Len(main.source_paths)
    /\ \E outcome \in Outcomes :
        main' = [main EXCEPT
            !.calls = Append(main.calls, Call(main.idx + 1, ~main.no_ocr, main, outcome)),
            !.meta = IF outcome \in {"raise_output", "hang"} THEN main.meta
                     ELSE SafeMeta(main.idx + 1, outcome),
            !.exit = IF outcome = "raise_output" THEN 1 ELSE main.exit,
            !.pc = AfterCall(outcome, "first")]
    /\ UNCHANGED <<chunk, annot, xref, sect, table, image, proc, build>>

\* the retry with the converter without OCR; its meta, with the warning
\* that names the initial status, is written again and replaces meta
MainRetry ==
    /\ main.pc = "first"
    /\ should_retry_without_ocr(main.source_paths[main.idx + 1], main.meta.status,
                                main.no_ocr, main.no_retry_no_ocr)
    /\ \E outcome \in Outcomes :
        LET retry_meta == SafeMeta(main.idx + 1, outcome)
        IN  main' = [main EXCEPT
                !.retry_converter_without_ocr = TRUE,
                !.calls = Append(main.calls, Call(main.idx + 1, FALSE, main, outcome)),
                !.meta = IF outcome \in {"raise_output", "hang"} THEN main.meta
                         ELSE [retry_meta EXCEPT !.warnings =
                                    Append(retry_meta.warnings, RetryWarning(main.meta.status))],
                !.exit = IF outcome = "raise_output" THEN 1 ELSE main.exit,
                !.pc = AfterCall(outcome, "retried")]
    /\ UNCHANGED <<chunk, annot, xref, sect, table, image, proc, build>>

\* metas.append(meta), and on to the next source
MainAppend ==
    /\ \/ main.pc = "retried"
       \/ /\ main.pc = "first"
          /\ ~should_retry_without_ocr(main.source_paths[main.idx + 1], main.meta.status,
                                       main.no_ocr, main.no_retry_no_ocr)
    /\ main' = [main EXCEPT !.metas = Append(main.metas, main.meta),
                            !.idx = main.idx + 1, !.pc = "loop"]
    /\ UNCHANGED <<chunk, annot, xref, sect, table, image, proc, build>>

\* the index file and the exit code
MainIndex ==
    /\ main.pc = "loop"
    /\ main.idx = Len(main.source_paths)
    /\ main' = [main EXCEPT !.index = main.metas, !.index_written = TRUE,
                            !.exit = ExitCode(main.metas, main.fail_on_error),
                            !.pc = "done"]
    /\ UNCHANGED <<chunk, annot, xref, sect, table, image, proc, build>>

InitMain ==
    /\ main \in InitMainFrame(MaxSources)
    /\ chunk = Idle /\ annot = Idle /\ xref = Idle /\ sect = Idle /\ table = Idle
    /\ image = Idle /\ proc = Idle /\ build = Idle

NextMain ==
    \/ MainValidate \/ MainPreflight \/ MainCollect
    \/ MainProcess \/ MainRetry \/ MainAppend \/ MainIndex

SpecMain == InitMain /\ [][NextMain]_vars

-----------------------------------------------------------------------------
(* Properties of chunk_text *)

ChunkRan == chunk.pc \in {"loop", "done"} /\ chunk.iter # NoSpan

\* C1: under the precondition max_chars > 0 and 0 <= overlap < max_chars,
\* chunk_text terminates: the loop reaches end >= size after finitely many
\* iterations.
C1_Terminates == <>(chunk.pc = "done")

\* the boundary the priority order paragraph break, line break, space gives
PriorityCut(cands) ==
    IF cands[1] # -1 THEN cands[1] ELSE IF cands[2] # -1 THEN cands[2] ELSE cands[3]

\* C7: when text remains after the candidate end, the cut is the rightmost
\* paragraph break of the window if there is one, otherwise the rightmost
\* line break, otherwise the rightmost space, and it is used only if it lies
\* past start + max_chars/3; otherwise the hard cut at start + max_chars stays.
C7_PriorityCut ==
    (ChunkRan /\ chunk.more) =>
        chunk.end = IF PriorityCut(chunk.cands) > chunk.iter.start + (chunk.max_chars \div 3)
                    THEN PriorityCut(chunk.cands)
                    ELSE chunk.iter.start + chunk.max_chars

\* C8 as stated: the span of every chunk after the first starts at
\* max(0, end of the previous chunk's span - overlap).
C8_StartFromPrevChunk ==
    (ChunkRan /\ chunk.iter.emitted /\ chunk.prevChunk # NoSpan) =>
        chunk.lastChunk.start = Max(0, chunk.prevChunk.end - chunk.overlap)

\* C8 amended: the span of every chunk after the first starts at
\* max(0, end of the preceding iteration's span - overlap), hence at or
\* below that end minus the overlap when not clipped at 0; the preceding
\* iteration's span is the previous chunk's span unless that iteration's
\* slice was whitespace only and yielded no chunk.
C8_StartFromPrevIter ==
    (ChunkRan /\ chunk.iter.emitted /\ chunk.prevIter # NoSpan) =>
        /\ chunk.lastChunk.start = Max(0, chunk.prevIter.end - chunk.overlap)
        /\ (chunk.prevIter.end - chunk.overlap >= 0
                => chunk.lastChunk.start <= chunk.prevIter.end - chunk.overlap)
        /\ (chunk.prevIter.emitted => chunk.prevChunk = chunk.prevIter)

\* C8 happens: a later chunk whose start is not clipped at 0 follows the
\* previous chunk
C8_Witness ==
    /\ ChunkRan /\ chunk.iter.emitted /\ chunk.prevIter.emitted
    /\ chunk.overlap > 0
    /\ chunk.lastChunk.start = chunk.prevChunk.end - chunk.overlap
    /\ chunk.lastChunk.start > 0

\* C9: every chunk chunk_text yields is non-empty and has at most max_chars
\* characters.
C9_ChunkBounded ==
    chunk.pc \in {"loop", "done"} =>
        \A i \in 1 .. Len(chunk.yielded) :
            /\ chunk.yielded[i] # <<>>
            /\ Len(chunk.yielded[i]) <= chunk.max_chars

\* C9 happens: a full-width chunk was yielded, and an iteration with a
\* whitespace-only slice yielded none
C9_Witness ==
    /\ ChunkRan
    /\ ~chunk.iter.emitted
    /\ chunk.prevIter.emitted
    /\ chunk.prevIter.end - chunk.prevIter.start = chunk.max_chars

\* the part of C27 that holds of every run: the first span starts at 0, each
\* later span starts at or before the end of the span before it, and the
\* span of the iteration after which the generator returns ends at size
SpansContiguous ==
    ChunkRan =>
        /\ (chunk.prevIter = NoSpan => chunk.iter.start = 0)
        /\ (chunk.prevIter # NoSpan => chunk.iter.start <= chunk.prevIter.end)
        /\ (chunk.pc = "done" => chunk.iter.end = chunk.size)

\* C27: the spans [start, end) of the consecutive iterations cover the
\* trimmed text without gaps, up to a last span that ends at size; so every
\* non-whitespace character of the trimmed text comes to lie in an emitted
\* chunk.  Stated for the last character of the trimmed text, which is never
\* whitespace: an iteration whose span ends at size emits a chunk.
C27_EveryCharacterEmitted ==
    <>(/\ chunk.pc # "call"
       /\ chunk.size > 0 => (chunk.iter.emitted /\ chunk.iter.end = chunk.size))

-----------------------------------------------------------------------------
(* Properties of build_section_chunks *)

\* n (below 1000) in three decimal digits
ThreeDigits(n) ==
    <<Digits[((n \div 100) % 10) + 1], Digits[((n \div 10) % 10) + 1], Digits[(n % 10) + 1]>>

\* the rows made so far from the section of row n, row n included
RowsOfSection(n) == {m \in 1 .. n : build.origin[m] = build.origin[n]}

\* C22: the j-th chunk of the i-th section (both counted from 1, in order)
\* has the id <doc_id>_s<i in 3 digits>_c<j in 3 digits>, and the chunk ids
\* of one document are pairwise distinct.
C22_ChunkIds ==
    build.pc \in {"sections", "chunks", "done"} =>
        /\ \A n \in 1 .. Len(build.rows) :
                /\ build.rows[n].chunk_id =
                        build.doc_id \o <<"_", "s">> \o ThreeDigits(build.origin[n])
                            \o <<"_", "c">> \o ThreeDigits(Cardinality(RowsOfSection(n)))
                /\ build.rows[n].section_title = build.sections[build.origin[n]].title
                /\ n > 1 => build.origin[n - 1] <= build.origin[n]
        /\ \A a, b \in 1 .. Len(build.rows) :
                a # b => build.rows[a].chunk_id # build.rows[b].chunk_id

\* C22 happens: two sections of two chunks each; the last row is the second
\* chunk of the second section
C22_Witness ==
    /\ build.pc = "done"
    /\ Len(build.sections) = 2
    /\ Len(build.result) = 4
    /\ build.origin = <<1, 1, 2, 2>>
    /\ build.result[4].chunk_id = <<"d", "_", "s", "0", "0", "2", "_", "c", "0", "0", "2">>

-----------------------------------------------------------------------------
(* Properties of annotate_headings *)

\* C2: once a reference key is bound in the registry, no later heading of
\* the document rebinds it to a different anchor.
C2_NeverRebound ==
    [][\A k \in DOMAIN annot.ref_targets :
            k \in DOMAIN annot'.ref_targets /\ annot'.ref_targets[k] = annot.ref_targets[k]]_vars

Heads == annot.heads

\* C3 as stated: the anchors of the headings are pairwise distinct, and the
\* first heading with a given slug keeps the bare slug.
C3_FirstKeepsBareSlug ==
    /\ \A i, j \in 1 .. Len(Heads) : i # j => Heads[i].anchor # Heads[j].anchor
    /\ \A j \in 1 .. Len(Heads) :
            (\A i \in 1 .. j - 1 : Heads[i].slug # Heads[j].slug)
                => Heads[j].anchor = Heads[j].slug

\* the anchors given to the headings before the j-th
EarlierAnchors(j) == {Heads[i].anchor : i \in 1 .. j - 1}

\* slug-k
Suffixed(slug, k) == slug \o <<"-">> \o IntToStr(k)

\* C3 amended: the anchors of the headings are pairwise distinct; a heading
\* keeps its bare slug when no earlier heading of the document was given
\* that string as its anchor (which a suffixed anchor such as foo-2 may have
\* been), and otherwise gets the slug suffixed with the smallest of -2, -3,
\* ... that is no earlier heading's anchor.
C3_AnchorsDistinct ==
    /\ \A i, j \in 1 .. Len(Heads) : i # j => Heads[i].anchor # Heads[j].anchor
    /\ \A j \in 1 .. Len(Heads) :
            IF Heads[j].slug \notin EarlierAnchors(j)
            THEN Heads[j].anchor = Heads[j].slug
            ELSE \E k \in 2 .. (j + 1) :
                    /\ Heads[j].anchor = Suffixed(Heads[j].slug, k)
                    /\ \A m \in 2 .. (k - 1) :
                            Suffixed(Heads[j].slug, m) \in EarlierAnchors(j)

\* C3 happens: three headings with one slug get the bare slug, -2 and -3
C3_Witness ==
    /\ Len(Heads) = 3
    /\ Heads[1].slug = Heads[2].slug /\ Heads[2].slug = Heads[3].slug
    /\ Heads[1].anchor = Heads[1].slug
    /\ Heads[2].anchor = Suffixed(Heads[1].slug, 2)
    /\ Heads[3].anchor = Suffixed(Heads[1].slug, 3)

\* C10: a heading that an anchor marker line precedes in the source is given
\* that pending anchor instead of the slug derived from its text.
C10_PendingHonored ==
    \A j \in 1 .. Len(Heads) :
        Heads[j].pending # None => Heads[j].anchor = Heads[j].pending

\* the headings among the first k input lines
HeadsBefore(k) == {j \in 1 .. Len(Heads) : Heads[j].index < k}

\* the place in lines_out of input line k (1-based): the lines before it
\* and one marker line for every heading up to it
OutIndex(k) == k + Cardinality(HeadsBefore(k))

\* C11: in the output of annotate_headings every heading line is immediately
\* preceded by one anchor marker line that carries the anchor assigned to
\* that heading, the lines that are no headings are passed through unchanged
\* and in order, and no other line is emitted.
C11_MarkerBeforeHeading ==
    annot.pc \in {"loop", "done"} =>
        /\ Len(annot.lines_out) = annot.i + Len(Heads)
        /\ \A k \in 1 .. annot.i : annot.lines_out[OutIndex(k)] = annot.lines[k]
        /\ \A j \in 1 .. Len(Heads) :
                /\ IsHeading(annot.lines[Heads[j].index + 1])
                /\ annot.lines_out[OutIndex(Heads[j].index + 1) - 1] = AnchorMarker(Heads[j].anchor)
        /\ \A k \in 1 .. annot.i :
                IsHeading(annot.lines[k]) <=> \E j \in 1 .. Len(Heads) : Heads[j].index + 1 = k
        /\ (annot.pc = "done" => annot.result = JoinLines(annot.lines_out))

\* C11 happens: a document with a heading between two other lines, one of
\* them an anchor marker line of the source, is annotated
C11_Witness ==
    /\ annot.pc = "done"
    /\ Len(annot.lines) = 3
    /\ AnchorMatch(annot.lines[1]) # None
    /\ IsHeading(annot.lines[2])
    /\ ~IsHeading(annot.lines[3])
    /\ Len(annot.lines_out) = 4
    /\ annot.lines_out[2] = AnchorMarker(Heads[1].anchor)
    /\ annot.lines_out[2] # annot.lines_out[1]

-----------------------------------------------------------------------------
(* Properties of normalize_cross_references *)

\* the fence lines among the first n lines
FencesBefore(lines, n) == {k \in 1 .. n : IsFenceLine(lines[k])}

\* line j is a fence line, or lies after an opening fence line that no
\* fence line before it closes
InFence(lines, j) ==
    IsFenceLine(lines[j]) \/ Cardinality(FencesBefore(lines, j - 1)) % 2 = 1

\* line j mentions a reference whose key is bound in the registry
MentionsBound(line, ref_targets) ==
    \E m \in 1 .. Len(RefMatches(line)) :
        make_ref_key(RefMatches(line)[m].label, RefMatches(line)[m].num) \in DOMAIN ref_targets

\* C4: a line between an opening and a closing fence line, and a fence line
\* itself, is never rewritten: it is in the output verbatim, also when it
\* mentions a reference whose key is bound.
C4_FencedVerbatim ==
    xref.pc \in {"loop", "done"} =>
        /\ Len(xref.normalized) = xref.i
        /\ \A j \in 1 .. xref.i :
                InFence(xref.lines, j) => xref.normalized[j] = xref.lines[j]

\* C4 happens: a line between two fence lines mentions a bound reference,
\* which outside a fence would be rewritten, and is output verbatim
C4_Witness ==
    /\ xref.pc = "done"
    /\ \E j \in 2 .. Len(xref.lines) - 1 :
            /\ IsFenceLine(xref.lines[j - 1])
            /\ IsFenceLine(xref.lines[j + 1])
            /\ ~IsFenceLine(xref.lines[j])
            /\ Cardinality(FencesBefore(xref.lines, j)) = 1
            /\ MentionsBound(xref.lines[j], xref.ref_targets)
            /\ xref.normalized[j] = xref.lines[j]
            /\ SubRefs(xref.lines[j], xref.ref_targets) # xref.lines[j]

\* the keys of the matches of line, in order
MatchKeys(line) ==
    LET M == RefMatches(line)
    IN  [m \in 1 .. Len(M) |-> make_ref_key(M[m].label, M[m].num)]

\* [text](#anchor)
Link(text, anchor) == <<"[">> \o text \o <<"]", "(", "#">> \o anchor \o <<")">>

\* the characters the links of the first n matches add, given their keys
RECURSIVE Grown(_, _, _)
Grown(keys, ref_targets, n) ==
    IF n = 0 THEN 0
    ELSE Grown(keys, ref_targets, n - 1)
            + (IF keys[n] \in DOMAIN ref_targets
               THEN Len(Link(<<>>, ref_targets[keys[n]]))
               ELSE 0)

\* out is line with exactly the matches whose key is bound wrapped in a
\* link to the anchor bound to the key
LinkedExactlyBound(line, out, ref_targets) ==
    LET M == RefMatches(line)
        n == Len(M)
        K == MatchKeys(line)
        G == [m \in 0 .. n |-> Grown(K, ref_targets, m)]
    IN  /\ Len(out) = Len(line) + G[n]
        /\ \A m \in 1 .. n :
            LET group0 == Slice(line, M[m].start, M[m].end)
            IN  IF K[m] \in DOMAIN ref_targets
                THEN Slice(out, M[m].start + G[m - 1], M[m].end + G[m])
                        = Link(group0, ref_targets[K[m]])
                ELSE Slice(out, M[m].start + G[m - 1], M[m].end + G[m - 1]) = group0
        /\ \A m \in 0 .. n :
            LET a == IF m = 0 THEN 0 ELSE M[m].end
                b == IF m = n THEN Len(line) ELSE M[m + 1].start
            IN  Slice(out, a + G[m], b + G[m]) = Slice(line, a, b)

\* C12: outside code fences a matched reference is wrapped in a markdown
\* link to #<anchor> exactly when its key <label>-<number, dots as hyphens>
\* is bound in the registry, with the anchor bound to that key; a match
\* whose key is not bound and all text outside the matches are unchanged.
C12_LinkedIffBound ==
    xref.pc \in {"loop", "done"} =>
        \A j \in 1 .. xref.i :
            ~InFence(xref.lines, j) =>
                LinkedExactlyBound(xref.lines[j], xref.normalized[j], xref.ref_targets)

\* C12 happens: outside a fence one line has a bound lower-case match and
\* an unbound match, and another has a bound match that begins with See
C12_Witness ==
    /\ xref.pc = "done"
    /\ \E j, k \in 1 .. Len(xref.lines) :
            /\ ~InFence(xref.lines, j) /\ ~InFence(xref.lines, k)
            /\ Len(MatchKeys(xref.lines[j])) = 2
            /\ MatchKeys(xref.lines[j])[1] = KeyTable1
            /\ KeyTable1 \in DOMAIN xref.ref_targets
            /\ MatchKeys(xref.lines[j])[2] \notin DOMAIN xref.ref_targets
            /\ xref.normalized[j] = Slice(xref.lines[j], 0, 2)
                    \o Link(Slice(xref.lines[j], 2, 9), AnchorOnTable1)
                    \o Slice(xref.lines[j], 9, Len(xref.lines[j]))
            /\ xref.normalized[k] = Link(xref.lines[k], AnchorOnTable1)
            /\ Slice(xref.lines[k], 0, 3) = <<"S", "e", "e">>

-----------------------------------------------------------------------------
(* Properties of extract_sections *)

\* the lines of the texts of the sections, in order
RECURSIVE SectionLines(_)
SectionLines(sections) ==
    IF sections = <<>> THEN <<>>
    ELSE SplitLines(Head(sections).text) \o SectionLines(Tail(sections))

IsBlank(line) == Strip(line) = <<>>

IsAnchorLine(line) == AnchorMatch(Strip(line)) # None

\* the non-blank lines, each without its surrounding whitespace
RECURSIVE NonBlank(_)
NonBlank(lines) ==
    IF lines = <<>> THEN <<>>
    ELSE IF IsBlank(Head(lines)) THEN NonBlank(Tail(lines))
    ELSE <<Strip(Head(lines))>> \o NonBlank(Tail(lines))

\* the non-blank lines that are no anchor marker lines
RECURSIVE Content(_)
Content(lines) ==
    IF lines = <<>> THEN <<>>
    ELSE IF IsBlank(Head(lines)) \/ IsAnchorLine(Head(lines)) THEN Content(Tail(lines))
    ELSE <<Strip(Head(lines))>> \o Content(Tail(lines))

\* C5 as stated, for the non-blank lines alone: every non-blank line of the
\* input is in the text of exactly one returned Section, none is lost.
C5_NoLineLost ==
    sect.pc = "done" => NonBlank(SectionLines(sect.result)) = NonBlank(sect.lines)

\* C5 amended: every non-blank line that is no anchor marker line is, in
\* document order, in the text of exactly one returned Section; an anchor
\* marker line is in no section of a document that has any such content.
C5_ContentPartitioned ==
    sect.pc = "done" =>
        /\ Content(SectionLines(sect.result)) = Content(sect.lines)
        /\ (Content(sect.lines) # <<>> =>
                NonBlank(SectionLines(sect.result)) = Content(sect.lines))

\* C5 happens: two sections and a dropped anchor marker line
C5_Witness ==
    /\ sect.pc = "done"
    /\ Len(sect.result) = 2
    /\ \E k \in 1 .. Len(sect.lines) : IsAnchorLine(sect.lines[k])
    /\ Len(Content(sect.lines)) = 2

\* the last heading line before line i (1-based), or 0
PrevHeading(lines, i) ==
    LET hs == {k \in 1 .. i - 1 : IsHeading(lines[k])}
    IN  IF hs = {} THEN 0 ELSE CHOOSE k \in hs : \A q \in hs : q <= k

\* the id of the latest anchor marker line among lines a + 1 .. b, or None
LatestMarker(lines, a, b) ==
    LET ks == {k \in a + 1 .. b : IsAnchorLine(lines[k])}
    IN  IF ks = {} THEN None
        ELSE AnchorMatch(Strip(lines[CHOOSE k \in ks : \A q \in ks : q <= k]))

\* C13: an anchor set by an anchor marker line stays pending until the next
\* heading line consumes it: the section a heading starts has as anchor the
\* id of the latest anchor marker line seen since the previous heading, and
\* the slug of its title only if no anchor marker line was seen since then.
C13_PendingUntilHeading ==
    (sect.pc \in {"loop", "done"} /\ sect.i > 0 /\ IsHeading(sect.lines[sect.i])) =>
        LET marker == LatestMarker(sect.lines, PrevHeading(sect.lines, sect.i), sect.i - 1)
        IN  sect.current_anchor =
                IF marker # None THEN marker ELSE slugify(HeadingText(sect.lines[sect.i]))

NoHeading(lines) == \A k \in 1 .. Len(lines) : ~IsHeading(lines[k])

\* the lines that are no anchor marker lines
RECURSIVE WithoutAnchorLines(_)
WithoutAnchorLines(lines) ==
    IF lines = <<>> THEN <<>>
    ELSE IF IsAnchorLine(Head(lines)) THEN WithoutAnchorLines(Tail(lines))
    ELSE <<Head(lines)>> \o WithoutAnchorLines(Tail(lines))

GenericTitles == {TitleDocumentStart, TitleDocument}

\* C14 as stated: for an input without heading line the result is empty when
\* the input has no content after trimming, and otherwise is one level-1
\* section with a generic title whose text is the whole trimmed document.
C14_WholeDocument ==
    (sect.pc = "done" /\ NoHeading(sect.lines)) =>
        IF Strip(sect.markdown) = <<>> THEN sect.result = <<>>
        ELSE /\ Len(sect.result) = 1
             /\ sect.result[1].level = 1
             /\ sect.result[1].title \in GenericTitles
             /\ sect.result[1].text = Strip(sect.markdown)

\* C14 amended: for an input without heading line the result is empty when
\* the input has no content after trimming, and otherwise is one level-1
\* section with a generic title: "Document Start", with the trimmed document
\* less its anchor marker lines as text, when a line other than an anchor
\* marker line is non-blank, and "Document", with the whole trimmed document
\* as text, when the only non-blank lines are anchor marker lines.
C14_AnchorLinesLeftOut ==
    (sect.pc = "done" /\ NoHeading(sect.lines)) =>
        IF Strip(sect.markdown) = <<>> THEN sect.result = <<>>
        ELSE IF Content(sect.lines) # <<>>
        THEN sect.result = <<[title |-> TitleDocumentStart, anchor |-> AnchorDocumentStart,
                              level |-> 1,
                              text |-> Strip(JoinLines(WithoutAnchorLines(sect.lines)))]>>
        ELSE sect.result = <<[title |-> TitleDocument, anchor |-> AnchorDocument,
                              level |-> 1, text |-> Strip(sect.markdown)]>>

\* C14 happens: a document without heading whose text lines surround an
\* anchor marker line gives one section that leaves the marker line out
C14_Witness ==
    /\ sect.pc = "done"
    /\ NoHeading(sect.lines)
    /\ Len(sect.lines) = 3
    /\ IsAnchorLine(sect.lines[2])
    /\ ~IsBlank(sect.lines[1]) /\ ~IsBlank(sect.lines[3])
    /\ Len(sect.result) = 1
    /\ sect.result[1].title = TitleDocumentStart
    /\ sect.result[1].text = Strip(sect.lines[1]) \o <<"\n">> \o Strip(sect.lines[3])

\* the heading lines of the document, by line number
HeadingLines(lines) == {k \in 1 .. Len(lines) : IsHeading(lines[k])}

\* the lines before the first heading line (all of them without a heading)
Preamble(lines) ==
    LET H == HeadingLines(lines)
    IN  IF H = {} THEN lines
        ELSE SubSeq(lines, 1, (CHOOSE k \in H : \A q \in H : k <= q) - 1)

\* the line number of the j-th heading line
NthHeading(lines, j) ==
    CHOOSE k \in HeadingLines(lines) :
        Cardinality({q \in HeadingLines(lines) : q <= k}) = j

\* s begins with t
BeginsWith(s, t) == Len(t) <= Len(s) /\ SubSeq(s, 1, Len(t)) = t

\* the section at position p is the one the heading line says: the heading's
\* text as title, the number of its # characters as level, the heading line
\* first in its text
StartedBy(section, line) ==
    /\ section.title = Strip(SubSeq(line, LeadingHashes(line) + 1, Len(line)))
    /\ section.level = LeadingHashes(line)
    /\ section.level \in 1 .. 6

\* C25 as stated: the result has exactly one section per heading line, in
\* order, plus one leading "Document Start" section when non-blank content
\* precedes the first heading (anchor marker lines are markers, not content);
\* the text of a heading-started section begins with its heading line and its
\* level is the number of # characters of that heading.
C25_OnePerHeading ==
    sect.pc = "done" =>
        LET H   == [j \in 1 .. Cardinality(HeadingLines(sect.lines)) |->
                        NthHeading(sect.lines, j)]
            pre == IF Content(Preamble(sect.lines)) # <<>> THEN 1 ELSE 0
        IN  /\ Len(sect.result) = Len(H) + pre
            /\ pre = 1 => sect.result[1].title = TitleDocumentStart
            /\ \A j \in 1 .. Len(H) :
                    /\ StartedBy(sect.result[j + pre], sect.lines[H[j]])
                    /\ BeginsWith(sect.result[j + pre].text, sect.lines[H[j]])

\* C25 amended: as stated, except that a document without heading line whose
\* only non-blank lines are anchor marker lines gives the single section
\* "Document" (level 1), and that the text of a section begins with its
\* heading line less the whitespace at its end.
C25_OnePerHeadingOrFallback ==
    sect.pc = "done" =>
        LET H   == [j \in 1 .. Cardinality(HeadingLines(sect.lines)) |->
                        NthHeading(sect.lines, j)]
            pre == IF Content(Preamble(sect.lines)) # <<>> THEN 1 ELSE 0
        IN  IF Len(H) + pre = 0 /\ Strip(sect.markdown) # <<>>
            THEN /\ Len(sect.result) = 1
                 /\ sect.result[1].title = TitleDocument
                 /\ sect.result[1].level = 1
            ELSE /\ Len(sect.result) = Len(H) + pre
                 /\ pre = 1 => /\ sect.result[1].title = TitleDocumentStart
                               /\ sect.result[1].level = 1
                 /\ \A j \in 1 .. Len(H) :
                        /\ StartedBy(sect.result[j + pre], sect.lines[H[j]])
                        /\ BeginsWith(sect.result[j + pre].text, RStrip(sect.lines[H[j]]))

\* C25 happens: a preamble and two headings of levels 1 and 2 gave three
\* sections
C25_Witness ==
    /\ sect.pc = "done"
    /\ Len(sect.lines) = 3
    /\ ~IsBlank(sect.lines[1]) /\ ~IsAnchorLine(sect.lines[1]) /\ ~IsHeading(sect.lines[1])
    /\ IsHeading(sect.lines[2]) /\ IsHeading(sect.lines[3])
    /\ Len(sect.result) = 3
    /\ sect.result[1].title = TitleDocumentStart
    /\ sect.result[2].level = 1 /\ sect.result[3].level = 2

-----------------------------------------------------------------------------
(* Properties of table_to_matrix *)

\* C6: a write of a cell's text to a grid position that holds a different
\* non-empty text leaves "<old> / <new>" there; a position that holds that
\* same text is left unchanged; an empty position is set to the text.
C6_WriteRule ==
    [][(table.pc = "loop" /\ table'.pc = "loop" /\ table'.k = table.k + 1
            /\ ~CellSkipped(table.table_cells[table.k + 1])) =>
        LET cell == table.table_cells[table.k + 1]
            text == clean_text(cell.text)
        IN  \A pos \in Covered(cell, table.rows, table.cols) :
                LET old == table.matrix[pos[1] + 1][pos[2] + 1]
                    new == table'.matrix[pos[1] + 1][pos[2] + 1]
                IN  /\ (old = <<>> => new = text)
                    /\ (old = text => new = old)
                    /\ ((old # <<>> /\ old # text) => new = old \o Separator \o text)]_vars

\* the cells in reversed input order
Reverse(s) == [i \in 1 .. Len(s) |-> s[Len(s) + 1 - i]]

\* the grid positions a cell covers: none when it has no text or a negative
\* start, otherwise those of the grid from its start to its end offsets
Spans(cell, rows, cols) ==
    IF clean_text(cell.text) = <<>> \/ RowStart(cell) < 0 \/ ColStart(cell) < 0 THEN {}
    ELSE {pos \in (0 .. rows - 1) \X (0 .. cols - 1) :
            /\ RowStart(cell) <= pos[1]
            /\ pos[1] <= safe_int(cell, "end_row_offset_idx", RowStart(cell))
            /\ ColStart(cell) <= pos[2]
            /\ pos[2] <= safe_int(cell, "end_col_offset_idx", ColStart(cell))}

\* no two cells with different text cover a common grid position
NoConflict(cells, rows, cols) ==
    \A i, j \in 1 .. Len(cells) :
        (Spans(cells[i], rows, cols) \cap Spans(cells[j], rows, cols)) # {}
            => clean_text(cells[i].text) = clean_text(cells[j].text)

\* C15: the matrix reconstructed from a cell list and the matrix
\* reconstructed from the same cells in reversed input order are equal,
\* provided no two cells with different text cover a common grid position.
C15_ReversedOrder ==
    (table.pc = "done" /\ NoConflict(table.table_cells, table.rows, table.cols)) =>
        table.result = table_to_matrix(Reverse(table.table_cells), table.rows, table.cols)

\* C15 happens: three cells without conflict, two of them with the same text
\* on a common position, in an order that is not its own reverse
C15_Witness ==
    /\ table.pc = "done"
    /\ Len(table.table_cells) = 3
    /\ NoConflict(table.table_cells, table.rows, table.cols)
    /\ Reverse(table.table_cells) # table.table_cells
    /\ (Spans(table.table_cells[1], table.rows, table.cols)
            \cap Spans(table.table_cells[2], table.rows, table.cols)) # {}
    /\ Spans(table.table_cells[3], table.rows, table.cols) # {}
    /\ table.table_cells[3].text # table.table_cells[1].text
    /\ Len(table.result) = 2

\* the rows of the filled grid that hold a non-blank cell
KeptRows == {r \in 1 .. Len(table.matrix) :
                \E c \in 1 .. Len(table.matrix[r]) : Strip(table.matrix[r][c]) # <<>>}

\* C16: the result consists of exactly the rows of the filled grid that hold
\* at least one non-blank cell, in their original order, and every row of
\* the result has exactly the declared number of columns.
C16_BlankRowsDropped ==
    table.pc = "done" =>
        /\ Len(table.result) = Cardinality(KeptRows)
        /\ \A r \in KeptRows :
                table.result[Cardinality({q \in KeptRows : q <= r})] = table.matrix[r]
        /\ \A i \in 1 .. Len(table.result) : Len(table.result[i]) = table.cols

\* C16 happens: of two rows the first is blank and dropped, the second kept
C16_Witness ==
    /\ table.pc = "done"
    /\ table.rows = 2 /\ table.cols = 2
    /\ KeptRows = {2}
    /\ Len(table.result) = 1
    /\ table.result[1] = table.matrix[2]

\* the cell has an offset of every kind the claim names
Malformed(cells, rows, cols) ==
    /\ \E i \in 1 .. Len(cells) : clean_text(cells[i].text) # <<>> /\ RowStart(cells[i]) < 0
    /\ \E i \in 1 .. Len(cells) :
            /\ Spans(cells[i], rows, cols) # {}
            /\ safe_int(cells[i], "end_row_offset_idx", 0) > rows - 1
            /\ safe_int(cells[i], "end_col_offset_idx", 0) > cols - 1
    /\ \E i \in 1 .. Len(cells) :
            /\ clean_text(cells[i].text) # <<>>
            /\ RowStart(cells[i]) >= 0
            /\ ColStart(cells[i]) > cols - 1

\* C17: whatever the span offsets are, table_to_matrix does not fail and
\* writes only inside the rows x cols grid: the grid keeps its shape, a cell
\* changes only positions of the grid between its start and end offsets, so
\* a cell with a negative start or a start beyond the grid changes none, and
\* a cell whose end lies beyond the grid writes up to the last row and column.
C17_NeverOutsideGrid ==
    [][/\ table'.pc # "raised"
       /\ (table.pc = "loop" /\ table'.pc = "loop") =>
            /\ Len(table'.matrix) = table.rows
            /\ \A r \in 1 .. table.rows : Len(table'.matrix[r]) = table.cols
       /\ (table.pc = "loop" /\ table'.k = table.k + 1) =>
            LET cell == table.table_cells[table.k + 1]
            IN  \A r \in 1 .. table.rows : \A c \in 1 .. table.cols :
                    /\ table'.matrix[r][c] # table.matrix[r][c]
                            => <<r - 1, c - 1>> \in Spans(cell, table.rows, table.cols)
                    /\ <<r - 1, c - 1>> \in Spans(cell, table.rows, table.cols)
                            => table'.matrix[r][c] # <<>>]_vars

\* C17 happens: a table with a negative start, an end beyond the grid and a
\* start beyond the grid was reconstructed, and the end was clamped
C17_Witness ==
    /\ table.pc = "done"
    /\ table.rows = 2 /\ table.cols = 2
    /\ Malformed(table.table_cells, table.rows, table.cols)
    /\ table.result = <<<<<<>>, <<"B">>>>, <<<<>>, <<"B">>>>>>

\* the cells A at (0, 0), B at (0, 1) and C spanning row 1, columns 0-1
CellsABC ==
    <<[text |-> <<"A">>, start_row_offset_idx |-> 0, end_row_offset_idx |-> 0, start_col_offset_idx |-> 0, end_col_offset_idx |-> 0],
      [text |-> <<"B">>, start_row_offset_idx |-> 0, end_row_offset_idx |-> 0, start_col_offset_idx |-> 1, end_col_offset_idx |-> 1],
      [text |-> <<"C">>, start_row_offset_idx |-> 1, end_row_offset_idx |-> 1, start_col_offset_idx |-> 0, end_col_offset_idx |-> 1]>>

MatrixABC == <<<<<<"A">>, <<"B">>>>, <<<<"C">>, <<"C">>>>>>

\* C18: the cleaned text of a cell with non-empty text and non-negative
\* start offsets is written into every grid position of its row span x
\* column span, ends inclusive and clamped to the grid: after the write
\* the position holds the text if it was empty and contains it otherwise;
\* the cells A, B, C with declared rows = cols = 2 give [[A, B], [C, C]].
C18_SpanFilled ==
    [][/\ (table.pc = "loop" /\ table'.pc = "loop" /\ table'.k = table.k + 1) =>
            LET cell == table.table_cells[table.k + 1]
                text == clean_text(cell.text)
            IN  \A pos \in Spans(cell, table.rows, table.cols) :
                    LET old == table.matrix[pos[1] + 1][pos[2] + 1]
                        new == table'.matrix[pos[1] + 1][pos[2] + 1]
                    IN  /\ IsSubstring(text, new)
                        /\ (old = <<>> => new = text)
       /\ (table'.pc = "done" /\ table.table_cells = CellsABC
                /\ table.rows = 2 /\ table.cols = 2) => table'.result = MatrixABC]_vars

\* C18 happens: the cells A, B, C were reconstructed as [[A, B], [C, C]]
C18_Witness ==
    /\ table.pc = "done"
    /\ table.table_cells = CellsABC
    /\ table.rows = 2 /\ table.cols = 2
    /\ table.result = MatrixABC

-----------------------------------------------------------------------------
(* Properties of replace_image_placeholders *)

\* the offsets of the occurrences of the placeholder token, in document
\* order (the token cannot overlap itself)
OccurrenceSet(markdown) ==
    {p \in 0 .. (Len(markdown) - Len(Token)) : Slice(markdown, p, p + Len(Token)) = Token}

RECURSIVE Ascending(_)
Ascending(S) ==
    IF S = {} THEN <<>>
    ELSE LET least == CHOOSE p \in S : \A q \in S : p <= q
         IN  <<least>> \o Ascending(S \ {least})

Occurrences(markdown) == Ascending(OccurrenceSet(markdown))

\* what the claim puts in the place of the k-th occurrence
ClaimedRef(k, images) ==
    IF k <= Len(images)
    THEN <<"!", "[">> \o escape_markdown_alt(images[k].alt) \o <<"]", "(">>
            \o images[k].relative_path \o <<")">>
    ELSE <<"!", "[", "i", "m", "a", "g", "e", "_">> \o Format03d(k)
            \o <<"]", "(", "#", "i", "m", "a", "g", "e", "_">> \o Format03d(k) \o <<")">>

\* by how much the text has grown after the first k occurrences
RECURSIVE GrownBy(_, _)
GrownBy(k, images) ==
    IF k = 0 THEN 0
    ELSE GrownBy(k - 1, images) + Len(ClaimedRef(k, images)) - Len(Token)

\* C19: every occurrence of the placeholder token is substituted: the k-th
\* occurrence (1-based, in document order) becomes the markdown image
\* reference of the k-th entry of the image list when k <= len(images), and
\* the numbered fallback ![image_kkk](#image_kkk) otherwise; no occurrence
\* is dropped or left in place, and the text between the occurrences is
\* unchanged and in order.
C19_EveryPlaceholderReplaced ==
    image.pc = "done" =>
        LET md  == image.raw_markdown
            occ == Occurrences(md)
            n   == Len(occ)
            G   == [k \in 0 .. n |-> GrownBy(k, image.images)]
        IN  /\ Len(image.result) = Len(md) + G[n]
            /\ \A k \in 1 .. n :
                    Slice(image.result, occ[k] + G[k - 1], occ[k] + Len(Token) + G[k])
                        = ClaimedRef(k, image.images)
            /\ \A k \in 0 .. n :
                    LET a == IF k = 0 THEN 0 ELSE occ[k] + Len(Token)
                        b == IF k = n THEN Len(md) ELSE occ[k + 1]
                    IN  Slice(image.result, a + G[k], b + G[k]) = Slice(md, a, b)

\* C19 happens: of three placeholders the first became the reference of the
\* one image of the list and the other two the fallbacks 002 and 003
C19_Witness ==
    /\ image.pc = "done"
    /\ Len(Occurrences(image.raw_markdown)) = 3
    /\ Len(image.images) = 1
    /\ image.result = ImageMarkdown(image.images[1]) \o FallbackMarkdown(2) \o FallbackMarkdown(3)

\* C26: whenever the k-th placeholder (1-based, in document order) is
\* replaced by an image reference, the ImageRef used is the one whose index
\* field equals k, also when some pictures of the document could not be
\* rendered and gave no ImageRef.
C26_IndexPairsWithPlaceholder ==
    image.pc = "done" =>
        \A k \in 1 .. Len(Occurrences(image.raw_markdown)) :
            k <= Len(image.images) => image.images[k].index = k

-----------------------------------------------------------------------------
(* Properties of process_document *)

\* the conversion result has no document or a status other than SUCCESS /
\* PARTIAL_SUCCESS
Unsuccessful ==
    proc.result.document = NoRecord \/ proc.result.status \notin {"SUCCESS", "PARTIAL_SUCCESS"}

\* C20: when the conversion result has no document or a status other than
\* SUCCESS / PARTIAL_SUCCESS, process_document runs no normalization stage
\* and writes no markdown, chunk or table artifact; it writes and returns a
\* meta record whose status is the value of the backend's status, whose
\* section, chunk, image and table counts are 0 and whose warnings are not
\* empty.
C20_FailureReported ==
    (proc.pc \in {"converted", "normalized", "written", "done"} /\ Unsuccessful) =>
        /\ proc.stages = <<>>
        /\ proc.files \subseteq {"meta_json"}
        /\ proc.pc \in {"converted", "done"}
        /\ proc.pc = "done" =>
            /\ proc.files = {"meta_json"}
            /\ proc.returned = proc.meta
            /\ proc.meta.status = StatusValue[proc.result.status]
            /\ proc.meta.sections = 0 /\ proc.meta.chunks = 0 /\ proc.meta.images = 0
            /\ proc.meta.tables_detected = 0 /\ proc.meta.tables_rendered = 0
            /\ proc.meta.table_blocks_in_markdown = 0
            /\ proc.meta.warnings # <<>>
            /\ proc.meta.errors = proc.result.errors

\* C20 happens: a result with status FAILURE that carries a document with
\* tables and pictures, and whose errors mention pdfium, was reported
C20_Witness ==
    /\ proc.pc = "done"
    /\ proc.result.status = "FAILURE"
    /\ proc.result.document # NoRecord
    /\ proc.result.document.tables_detected > 0
    /\ ~proc.no_images
    /\ proc.meta.status = "failure"
    /\ proc.meta.warnings = <<WarningFailed, HintPdfium>>

-----------------------------------------------------------------------------
(* Properties of the pipeline of process_document *)

\* the anchor has its marker line in the text, directly before a heading line
MarkerBeforeHeading(lines, anchor) ==
    \E i \in 1 .. Len(lines) - 1 :
        lines[i] = <<"<", "a", " ", "i", "d", "=", "\"">> \o anchor \o <<"\"", ">", "<", "/", "a", ">">>
            /\ IsHeading(lines[i + 1])

\* the targets of the markdown links [..](#target) of a line
LinkTargets(line) ==
    {Slice(line, p + 3, Find(line, <<")">>, p + 3)) :
        p \in {q \in 0 .. Len(line) - 3 :
                    /\ Slice(line, q, q + 3) = <<"]", "(", "#">>
                    /\ Find(line, <<")">>, q + 3) # -1}}

\* the targets of all links of a text
AllLinkTargets(lines) == UNION {LinkTargets(lines[j]) : j \in 1 .. Len(lines)}

\* C28: after annotate_headings every value of the registry is an anchor
\* whose marker line was emitted before a heading of the document; and every
\* link normalize_cross_references has put into the normalized markdown
\* targets an anchor whose marker line is in the normalized markdown.
C28_NoDanglingLink ==
    /\ annot.pc = "done" =>
            \A k \in DOMAIN annot.ref_targets :
                MarkerBeforeHeading(SplitLines(annot.result), annot.ref_targets[k])
    /\ xref.pc = "done" =>
            \A t \in AllLinkTargets(SplitLines(xref.result)) :
                MarkerBeforeHeading(SplitLines(xref.result), t)

\* C28 happens: a reference outside a heading was linked to the anchor of
\* the heading that mentions the table, an anchor other than the key
C28_Witness ==
    /\ xref.pc = "done"
    /\ annot.pc = "done"
    /\ \E j \in 1 .. Len(xref.normalized) :
            /\ ~IsHeading(xref.normalized[j])
            /\ LinkTargets(xref.normalized[j]) = {<<"o", "n", "-", "t", "a", "b", "l", "e", "-", "1">>}

\* the number of sections that no heading started (the preamble section or
\* the fallback section)
LeadingSections == Len(sect.result) - Len(annot.heads)

\* the part of C29 that holds of every run: the section each heading starts
\* carries the anchor annotate_headings assigned to that heading
SectionsCarryAssignedAnchors ==
    (sect.pc = "done" /\ annot.pc = "done") =>
        /\ LeadingSections \in {0, 1}
        /\ \A j \in 1 .. Len(annot.heads) :
                sect.result[j + LeadingSections].anchor = annot.heads[j].anchor

\* C29: for annotate_headings, then normalize_cross_references, then
\* extract_sections, the section started by each heading carries exactly the
\* anchor annotate_headings assigned to that heading, and the anchors of the
\* sections of the document are pairwise distinct.
C29_SectionAnchorsAgree ==
    (sect.pc = "done" /\ annot.pc = "done") =>
        /\ SectionsCarryAssignedAnchors
        /\ \A a, b \in 1 .. Len(sect.result) :
                a # b => sect.result[a].anchor # sect.result[b].anchor

-----------------------------------------------------------------------------
(* Properties of main *)

\* the calls of process_document_safe for the doc-th source, in order
CallsOf(doc) ==
    SelectSeq(main.calls, LAMBDA c : c.doc = doc)

\* the status of the meta a call that returned gave back
ReturnedStatus(c) ==
    IF c.outcome = "raise" THEN "UNEXPECTED_ERROR" ELSE c.outcome

\* C21: main rejects chunk parameters with max_chars <= 0, overlap < 0 or
\* overlap >= max_chars with exit code 2 before any document is converted,
\* so every call of the pipeline, and with it every call of chunk_text,
\* gets max_chars > 0 and 0 <= overlap < max_chars.
C21_ParamsChecked ==
    /\ (/\ main.pc # "call"
        /\ \/ main.chunk_max_chars <= 0
           \/ main.chunk_overlap < 0
           \/ main.chunk_overlap >= main.chunk_max_chars)
       => (main.pc = "done" /\ main.exit = 2 /\ main.calls = <<>>
           /\ ~main.index_written)
    /\ \A i \in 1 .. Len(main.calls) :
        /\ main.calls[i].max_chars > 0
        /\ 0 <= main.calls[i].overlap
        /\ main.calls[i].overlap < main.calls[i].max_chars

\* a positive max_chars with an overlap as large was rejected
C21_Witness ==
    /\ main.pc = "done" /\ main.exit = 2 /\ main.calls = <<>>
    /\ main.chunk_max_chars > 0
    /\ main.chunk_overlap >= main.chunk_max_chars
    /\ main.found # <<>>

\* C24: each document is converted at most twice; the second attempt is made
\* with OCR disabled and only if the first attempt's status is not success or
\* partial_success, the source is a PDF, OCR was enabled and the retry was
\* not disabled; the meta appended for the document is then the retry's,
\* with a warning recording the initial status, and no attempt follows the
\* retry whatever its outcome.
C24_RetryOnce ==
    \A doc \in 1 .. Len(main.source_paths) :
        LET cs == CallsOf(doc)
        IN  /\ Len(cs) <= 2
            /\ Len(cs) = 2 =>
                /\ ~cs[2].do_ocr
                /\ cs[1].do_ocr
                /\ ~main.no_ocr /\ ~main.fast
                /\ ~main.no_retry_no_ocr
                /\ main.source_paths[doc] = "PDF"
                /\ ReturnedStatus(cs[1]) \notin {"success", "partial_success"}
            /\ doc <= Len(main.metas) =>
                LET meta == main.metas[doc]
                IN  /\ Len(cs) >= 1
                    /\ meta.doc = doc
                    /\ meta.status = ReturnedStatus(cs[Len(cs)])
                    /\ Len(cs) = 2 =>
                        /\ meta.warnings # <<>>
                        /\ meta.warnings[Len(meta.warnings)] =
                              <<"Initial conversion status was ", ReturnedStatus(cs[1]),
                                "; retried once with OCR disabled (--no-ocr).">>
                    /\ Len(cs) = 1 =>
                        \A w \in 1 .. Len(meta.warnings) : Len(meta.warnings[w]) = 1

\* a PDF failed, was retried without OCR, failed again, and the batch went on
C24_Witness ==
    /\ Len(main.metas) >= 1
    /\ Len(CallsOf(1)) = 2
    /\ main.metas[1].status = "failure"
    /\ CallsOf(1)[1].outcome = "raise"
    /\ Len(main.calls) > 2

\* C30: every collected source path contributes exactly one meta record to
\* the index, in source order; an exception raised while processing one
\* document is turned by process_document_safe into a meta with status
\* UNEXPECTED_ERROR and does not prevent the processing of the documents
\* after it.
C30_ExceptionsContained ==
    /\ main.index_written =>
        /\ Len(main.index) = Len(main.source_paths)
        /\ \A i \in 1 .. Len(main.index) : main.index[i].doc = i
    /\ \A i \in 1 .. Len(main.calls) :
        main.calls[i].outcome \in {"raise", "raise_output"} =>
            /\ main.pc # "crashed"
            /\ i = Len(main.calls) /\ main.pc \in {"first", "retried"}
                => main.meta.status = "UNEXPECTED_ERROR"

\* the part of C30 about the runs of main that reach the index: one meta for
\* every source, in source order
IndexHasEverySource ==
    main.index_written =>
        /\ Len(main.index) = Len(main.source_paths)
        /\ \A i \in 1 .. Len(main.index) : main.index[i].doc = i

====
